---- MODULE Spec2Model ----
(***************************************************************************)
(* HideThis: the rule-reconciliation engine of the content script.         *)
(*                                                                         *)
(* One browser tab is modelled: the page's document, the ElementSelector   *)
(* (scripts/selector.js) with its own StorageManager instance, the global  *)
(* DomAttrsRemover (components/dom-attrs-remover.js) with a second         *)
(* StorageManager instance, and chrome.storage.local, which outlives the   *)
(* page.  A step of the model is one macrotask of the page's main thread:  *)
(* a handler runs together with the microtask continuations it starts      *)
(* (awaits on already settled promises); only storage I/O, observer        *)
(* callbacks, user commands and page scripts are separate steps.           *)
(***************************************************************************)
EXTENDS Integers, Sequences, FiniteSets, TLC

\* ---------------------------------------------------------------- bounds

\* User commands (hide, show, clear, remove, navigate) per behaviour.
MaxOps == 2
\* Date.now() is read as a logical clock 0..MaxTime.
MaxTime == 1
\* Elements confirmed together in one executeHideAction.
MaxSelect == 2

\* ------------------------------------------------------------ the document

Origins == {"a.com", "b.com"}

Elements == {"e1", "e2", "e3", "e4"}

\* Document order (querySelectorAll, getElementById and getElementsByClassName
\* report elements in this order).
ElOrder == <<"e1", "e2", "e3", "e4">>

NoParent == "body"

\* The page served by either origin: e1 and e2 are in the markup, the subtree
\* e3 > e4 is injected later by a page script (lazy-loaded content).
Parent == [e \in Elements |-> IF e = "e4" THEN "e3" ELSE NoParent]
Tag == [e \in Elements |-> IF e = "e4" THEN "span" ELSE "div"]
ElId == [e \in Elements |-> IF e \in {"e2", "e3"} THEN "m" ELSE ""]
TemplateClass == [e \in Elements |-> IF e \in {"e1", "e3", "e4"} THEN <<"ad">> ELSE <<>>]
\* element.tagName of an HTML element is upper-case.
TagName == [e \in Elements |-> IF Tag[e] = "span" THEN "SPAN" ELSE "DIV"]
\* The element's data-testid attribute ("" when it has none).
DataTestId == [e \in Elements |-> IF e = "e4" THEN "t" ELSE ""]
Static == {"e1", "e2"}

NoAttr == "(absent)"

\* The user-agent stylesheet's display for an element without inline display.
DefaultDisplay(e) == IF Tag[e] = "span" THEN "inline" ELSE "block"

FreshElement(e) ==
  [att |-> IF e \in Static THEN "in" ELSE "pending",
   cls |-> TemplateClass[e],
   style |-> "",
   orig |-> NoAttr,
   hid |-> FALSE,
   proc |-> FALSE]

FreshDocument == [e \in Elements |-> FreshElement(e)]

\* ---------------------------------------------------------------- selectors

\* A selector string is kept as its first character class and the names that
\* follow it joined by '.': ".ad" is [lead |-> ".", names |-> <<"ad">>],
\* "#m" is [lead |-> "#", names |-> <<"m">>], the tag selector "span" is
\* [lead |-> "", names |-> <<"span">>], and "!!" stands for any string
\* querySelectorAll rejects with a SyntaxError.
Sel(lead, names) == [lead |-> lead, names |-> names]
SelAd == Sel(".", <<"ad">>)
SelM == Sel("#", <<"m">>)
SelSpan == Sel("", <<"span">>)
SelBad == Sel("", <<"!!">>)
\* No selector: the empty string, or the undefined selector of a legacy entry.
NoSel == Sel("", <<>>)
\* ".!!", "#!!": strings that start like a class or an id selector and are
\* not valid CSS; "[x]" is an attribute selector and "[x" one left open.
SelBadClass == Sel(".", <<"!!">>)
SelBadId == Sel("#", <<"!!">>)
SelAttr == Sel("[", <<"x]">>)
SelBadAttr == Sel("[", <<"x">>)

\* What a user can type into removeElements.
TypedSelectors == {SelAd, SelM, SelSpan, SelBad}

SeqToSet(s) == {s[i] : i \in 1..Len(s)}

Includes(s, x) == \E i \in 1..Len(s) : s[i] = x

IndexOf(s, x) == IF Includes(s, x) THEN CHOOSE i \in 1..Len(s) : s[i] = x /\ \A j \in 1..(i - 1) : s[j] # x ELSE 0

RemoveAt(s, i) == [j \in 1..(Len(s) - 1) |-> IF j < i THEN s[j] ELSE s[j + 1]]

Without(s, x) == SelectSeq(s, LAMBDA y : y # x)

\* --------------------------------------------------------------- DOM queries

RECURSIVE InDoc(_, _)
InDoc(d, e) ==
  IF d[e].att # "in" THEN FALSE
  ELSE IF Parent[e] = NoParent THEN TRUE
  ELSE InDoc(d, Parent[e])

\* getComputedStyle(element).display
Computed(d, e) == IF d[e].style # "" THEN d[e].style ELSE DefaultDisplay(e)

\* An element the pointer can reach: in the document and not display:none,
\* nor inside a display:none ancestor.
RECURSIVE Rendered(_, _)
Rendered(d, e) ==
  IF ~InDoc(d, e) \/ Computed(d, e) = "none" THEN FALSE
  ELSE IF Parent[e] = NoParent THEN TRUE
  ELSE Rendered(d, Parent[e])

\* Whether querySelector / querySelectorAll accepts the string.
IsValidCss(sel) ==
  /\ ~Includes(sel.names, "!!")
  /\ (sel.lead = "[" => (sel.names # <<>> /\ sel.names[Len(sel.names)] = "x]"))

\* element.matches(selector), for a syntactically valid selector.
Matches(d, e, sel) ==
  CASE sel.lead = "." ->
         /\ Len(sel.names) > 0
         /\ \A i \in 1..Len(sel.names) : Includes(d[e].cls, sel.names[i])
    [] sel.lead = "#" ->
         /\ Len(sel.names) > 0
         /\ ElId[e] = sel.names[1]
         /\ \A i \in 2..Len(sel.names) : Includes(d[e].cls, sel.names[i])
    [] OTHER -> Len(sel.names) = 1 /\ Tag[e] = sel.names[1]

QuerySelectorAll(d, sel) == SelectSeq(ElOrder, LAMBDA e : InDoc(d, e) /\ Matches(d, e, sel))

\* selector.substring(1) is the text after the first character: one class (or
\* id) token only when no further '.' follows.
HasClassToken(d, e, tok) == Len(tok) = 1 /\ Includes(d[e].cls, tok[1])

GetElementsByClassName(d, tok) == SelectSeq(ElOrder, LAMBDA e : InDoc(d, e) /\ HasClassToken(d, e, tok))

\* document.getElementById: the first element in document order, as a
\* sequence of length 0 or 1.
GetElementById(d, tok) ==
  LET all == SelectSeq(ElOrder, LAMBDA e : InDoc(d, e) /\ Len(tok) = 1 /\ ElId[e] = tok[1])
  IN IF all = <<>> THEN <<>> ELSE <<Head(all)>>

\* node.querySelectorAll('*'): the descendants attached below node.
RECURSIVE Below(_, _, _)
Below(d, node, e) ==
  IF Parent[e] = NoParent \/ d[e].att # "in" THEN FALSE
  ELSE IF Parent[e] = node THEN TRUE
  ELSE Below(d, node, Parent[e])

Descendants(d, node) == SelectSeq(ElOrder, LAMBDA e : Below(d, node, e))

ClassListRemove(d, e, tok) ==
  IF Len(tok) = 1 THEN [d EXCEPT ![e].cls = Without(@, tok[1])] ELSE d

\* ------------------------------------------------------- ElementSelector DOM

SetAdd(s, x) == IF Includes(s, x) THEN s ELSE Append(s, x)

hideElementDirectly(d, e) ==
  [d EXCEPT ![e].orig = IF d[e].style # "" THEN d[e].style ELSE Computed(d, e),
            ![e].style = "none",
            ![e].hid = TRUE]

\* A show that resets the display and leaves the two marker attributes.
showElementDomMarked(d, e) == [d EXCEPT ![e].style = ""]

\* showElement's DOM part.
showElementDom(d, e) ==
  [d EXCEPT ![e].style = IF d[e].orig # NoAttr /\ d[e].orig # "none" THEN d[e].orig ELSE "",
            ![e].hid = FALSE,
            ![e].orig = NoAttr]

\* String.prototype.toLowerCase on the tag names of the document.
toLowerCase(str) ==
  CASE str = "DIV" -> "div"
    [] str = "SPAN" -> "span"
    [] str = "NAV" -> "nav"
    [] str = "TABLE" -> "table"
    [] OTHER -> str

\* The class tokens that start with 'hidethis-'.
ExtensionClasses == {"hidethis-selected"}

\* className.split(' ') without the empty pieces and the 'hidethis-' classes.
OwnClasses(cls) == SelectSeq(cls, LAMBDA c : c # "" /\ c \notin ExtensionClasses)

\* A generator that looks at the classes before the id.
generateElementSelectorClassFirst(d, e) ==
  IF Len(OwnClasses(d[e].cls)) > 0 THEN Sel(".", OwnClasses(d[e].cls))
  ELSE IF ElId[e] # "" THEN Sel("#", <<ElId[e]>>)
  ELSE Sel("", <<toLowerCase(TagName[e])>>)

generateElementSelector(d, e) ==
  IF ElId[e] # "" THEN Sel("#", <<ElId[e]>>)
  ELSE IF Len(OwnClasses(d[e].cls)) > 0 THEN Sel(".", OwnClasses(d[e].cls))
  ELSE Sel("", <<toLowerCase(TagName[e])>>)

\* restorePersistedData's inner loop over one selector's matches.
RECURSIVE RestoreMatches(_, _, _)
RestoreMatches(els, d, he) ==
  IF els = <<>> THEN [dom |-> d, hidden |-> he]
  ELSE IF Includes(he, Head(els)) THEN RestoreMatches(Tail(els), d, he)
  ELSE RestoreMatches(Tail(els), hideElementDirectly(d, Head(els)), Append(he, Head(els)))

\* A replay that uses querySelector: only the first match is hidden.
RestoreSelectorFirstMatch(sel, d, he) ==
  IF IsValidCss(sel) /\ QuerySelectorAll(d, sel) # <<>>
  THEN RestoreMatches(<<Head(QuerySelectorAll(d, sel))>>, d, he)
  ELSE [dom |-> d, hidden |-> he]

RestoreSelector(sel, d, he) ==
  IF IsValidCss(sel) THEN RestoreMatches(QuerySelectorAll(d, sel), d, he)
  ELSE [dom |-> d, hidden |-> he]

RECURSIVE restorePersistedData(_, _, _)
restorePersistedData(sels, d, he) ==
  IF sels = <<>> THEN [dom |-> d, hidden |-> he]
  ELSE LET r == RestoreSelector(Head(sels), d, he)
       IN restorePersistedData(Tail(sels), r.dom, r.hidden)

\* ------------------------------------------------------- DomAttrsRemover DOM

RECURSIVE StripAll(_, _, _)
StripAll(d, els, tok) ==
  IF els = <<>> THEN d ELSE StripAll(ClassListRemove(d, Head(els), tok), Tail(els), tok)

RECURSIVE MarkProcessed(_, _, _)
MarkProcessed(d, els, tok) ==
  IF els = <<>> THEN d
  ELSE IF d[Head(els)].proc THEN MarkProcessed(d, Tail(els), tok)
  ELSE MarkProcessed([ClassListRemove(d, Head(els), tok) EXCEPT ![Head(els)].proc = TRUE],
                     Tail(els), tok)

processNewElements(d, tok) == MarkProcessed(d, GetElementsByClassName(d, tok), tok)

RECURSIVE RemoveAll(_, _)
RemoveAll(d, els) ==
  IF els = <<>> THEN d ELSE RemoveAll([d EXCEPT ![Head(els)].att = "out"], Tail(els))

RemovalType(sel) ==
  IF sel.lead = "." THEN "class" ELSE IF sel.lead = "#" THEN "id" ELSE "complex"

\* removeElements up to its call of storeRemovedElement: ok is FALSE when it
\* throws 'Selector must be a non-empty string' or 'Invalid CSS selector'.
removeElementsDom(d, sel) ==
  LET type == RemovalType(sel) IN
  IF sel = NoSel THEN [ok |-> FALSE, type |-> "unknown", count |-> 0, dom |-> d]
  ELSE IF type = "class" THEN
    LET existing == GetElementsByClassName(d, sel.names)
    IN [ok |-> TRUE, type |-> type, count |-> Len(existing),
        dom |-> StripAll(processNewElements(d, sel.names), existing, sel.names)]
  ELSE IF type = "id" THEN
    LET found == GetElementById(d, sel.names)
    IN [ok |-> TRUE, type |-> type, count |-> Len(found), dom |-> RemoveAll(d, found)]
  ELSE IF IsValidCss(sel) THEN
    LET found == QuerySelectorAll(d, sel)
    IN [ok |-> TRUE, type |-> type, count |-> Len(found), dom |-> RemoveAll(d, found)]
  ELSE [ok |-> FALSE, type |-> type, count |-> 0, dom |-> d]

\* processVisibleElement's loop: only class-type rules act on the element.
RECURSIVE ApplyRemovals(_, _, _)
ApplyRemovals(d, e, rules) ==
  IF rules = <<>> THEN d
  ELSE IF Head(rules).type = "class" /\ HasClassToken(d, e, Head(rules).selector.names)
       THEN ApplyRemovals(ClassListRemove(d, e, Head(rules).selector.names), e, Tail(rules))
       ELSE ApplyRemovals(d, e, Tail(rules))

\* A callback that stops at the first rule that strips something.
RECURSIVE processVisibleElementFirstRule(_, _, _)
processVisibleElementFirstRule(d, e, rules) ==
  IF rules = <<>> THEN d
  ELSE IF Head(rules).type = "class" /\ HasClassToken(d, e, Head(rules).selector.names)
       THEN ClassListRemove(d, e, Head(rules).selector.names)
       ELSE processVisibleElementFirstRule(d, e, Tail(rules))

processVisibleElement(d, e, rules) == ApplyRemovals(d, e, rules)

\* handleNewNodes for one added node: the node, then its descendants.
RECURSIVE ProcessEach(_, _, _)
ProcessEach(d, els, rules) ==
  IF els = <<>> THEN d
  ELSE ProcessEach(processVisibleElement(d, Head(els), rules), Tail(els), rules)

\* A callback that looks at the added node only, not at its subtree.
handleNewNodeShallow(d, node, rules) == processVisibleElement(d, node, rules)

handleNewNode(d, node, rules) ==
  LET d1 == processVisibleElement(d, node, rules)
  IN ProcessEach(d1, Descendants(d1, node), rules)

RECURSIVE handleNewNodes(_, _, _)
handleNewNodes(d, nodes, rules) ==
  IF nodes = <<>> THEN d
  ELSE handleNewNodes(handleNewNode(d, Head(nodes), rules), Tail(nodes), rules)

\* ------------------------------------------------------------ StorageManager

\* An origin's entry of the cache Map, or of the stored object; present is
\* FALSE for a key the Map (object) does not hold.
Absent == [present |-> FALSE, hidden |-> <<>>, removedElements |-> <<>>]
EmptyDomainData == [present |-> TRUE, hidden |-> <<>>, removedElements |-> <<>>]
EmptyStore == [o \in Origins |-> Absent]

loadFromStorage(blob) ==
  [o \in Origins |->
     IF blob[o].present
     THEN [present |-> TRUE, hidden |-> blob[o].hidden,
           removedElements |-> blob[o].removedElements]
     ELSE Absent]

\* A save that leaves the hidden selectors out of the stored object.
saveToStorageRulesOnly(cache) ==
  [o \in Origins |->
     IF cache[o].present
     THEN [present |-> TRUE, hidden |-> <<>>, removedElements |-> cache[o].removedElements]
     ELSE Absent]

\* The object saveToStorage hands to chrome.storage.local.set.
saveToStorage(cache) ==
  [o \in Origins |->
     IF cache[o].present
     THEN [present |-> TRUE, hidden |-> cache[o].hidden,
           removedElements |-> cache[o].removedElements]
     ELSE Absent]

getDomainDataSync(cache, domain) ==
  IF cache[domain].present THEN cache ELSE [cache EXCEPT ![domain] = EmptyDomainData]

\* An add that pushes without looking for the selector.
addHiddenElementAppend(cache, domain, sel) ==
  LET c == getDomainDataSync(cache, domain)
  IN [cache |-> [c EXCEPT ![domain].hidden = Append(@, sel)], wrote |-> TRUE]

\* The cache after addHiddenElement's synchronous part, and whether it wrote.
addHiddenElement(cache, domain, sel) ==
  LET c == getDomainDataSync(cache, domain) IN
  IF ~Includes(c[domain].hidden, sel)
  THEN [cache |-> [c EXCEPT ![domain].hidden = Append(@, sel)], wrote |-> TRUE]
  ELSE [cache |-> c, wrote |-> FALSE]

removeHiddenElement(cache, domain, sel) ==
  LET c == getDomainDataSync(cache, domain)
      index == IndexOf(c[domain].hidden, sel) IN
  IF index > 0
  THEN [cache |-> [c EXCEPT ![domain].hidden = RemoveAt(@, index)], wrote |-> TRUE]
  ELSE [cache |-> c, wrote |-> FALSE]

clearHiddenElements(cache, domain) ==
  LET c == getDomainDataSync(cache, domain)
  IN [cache |-> [c EXCEPT ![domain].hidden = <<>>], wrote |-> TRUE,
      count |-> Len(c[domain].hidden)]

saveDomainData(cache, domain, data) ==
  [cache EXCEPT ![domain] = [present |-> TRUE, hidden |-> data.hidden,
                             removedElements |-> data.removedElements]]

\* A getDomainData that hands out a fresh, empty entry every time.
getDomainDataReset(cache, domain) == [cache EXCEPT ![domain] = EmptyDomainData]

\* The cache after getDomainData (which creates a missing entry).
getDomainData(cache, domain) == getDomainDataSync(cache, domain)

Rule(sel, type, count, t) == [selector |-> sel, type |-> type, count |-> count, timestamp |-> t]

FindIndex(rules, sel) ==
  IF \E i \in 1..Len(rules) : rules[i].selector = sel
  THEN CHOOSE i \in 1..Len(rules) :
         rules[i].selector = sel /\ \A j \in 1..(i - 1) : rules[j].selector # sel
  ELSE 0

\* A store that leaves a record it finds as it is.
storeRemovedElementKeep(cache, domain, sel, type, count, t) ==
  LET c == getDomainData(cache, domain)
      removed == c[domain].removedElements
      updated == IF FindIndex(removed, sel) # 0 THEN removed
                 ELSE Append(removed, Rule(sel, type, count, t))
  IN saveDomainData(c, domain, [hidden |-> c[domain].hidden, removedElements |-> updated])

\* A store that always pushes a new record.
storeRemovedElementAppend(cache, domain, sel, type, count, t) ==
  LET c == getDomainData(cache, domain)
      updated == Append(c[domain].removedElements, Rule(sel, type, count, t))
  IN saveDomainData(c, domain, [hidden |-> c[domain].hidden, removedElements |-> updated])

\* A store that keeps a rule only when the sweep removed something.
storeRemovedElementIfFound(cache, domain, sel, type, count, t) ==
  LET c == getDomainData(cache, domain)
      removed == c[domain].removedElements
      updated == IF count = 0 THEN removed
                 ELSE IF FindIndex(removed, sel) # 0
                 THEN [removed EXCEPT ![FindIndex(removed, sel)] = Rule(sel, type, count, t)]
                 ELSE Append(removed, Rule(sel, type, count, t))
  IN saveDomainData(c, domain, [hidden |-> c[domain].hidden, removedElements |-> updated])

\* storeRemovedElement: the DomAttrsRemover cache after saveDomainData's set.
storeRemovedElement(cache, domain, sel, type, count, t) ==
  LET c == getDomainData(cache, domain)
      removed == c[domain].removedElements
      existingIndex == FindIndex(removed, sel)
      removalData == Rule(sel, type, count, t)
      updated == IF existingIndex # 0
                 THEN [removed EXCEPT ![existingIndex] = removalData]
                 ELSE Append(removed, removalData)
  IN saveDomainData(c, domain, [hidden |-> c[domain].hidden, removedElements |-> updated])

\* ------------------------------------------------------------------ state

VARIABLES
  host,            \* window.location.hostname of the tab
  page,            \* "live", or "unloading" once window.location.reload() was called
  dom,             \* the document's elements
  durable,         \* chrome.storage.local's hidethis_data object
  writes,          \* chrome.storage.local.set calls in flight, in call order
  esPhase,         \* ElementSelector: "loading" (storage get in flight) or "ready"
  esCache,         \* ElementSelector.storageManager.cache
  hiddenElements,  \* ElementSelector.hiddenElements, in insertion order
  darPhase,        \* DomAttrsRemover: "loading", "restoring" or "ready"
  darCache,        \* DomAttrsRemover.storageManager.cache
  observing,       \* the MutationObserver and the IntersectionObserver are connected
  ioObserved,      \* targets of the IntersectionObserver
  mutations,       \* added nodes the MutationObserver has yet to report
  restoreList,     \* restoreRemovedElements: the rules it iterates
  restoreIdx,      \* restoreRemovedElements: the rule whose removeElements is awaited
  now,             \* Date.now()
  ops,             \* user commands so far
  events,          \* what the last step sent or resolved: notifications, responses, promises
  invalidatedSelectors,  \* CSSInvalidator.invalidatedSelectors, in insertion order
  styleElement,    \* CSSInvalidator.styleElement: "null" or "element"
  headStyles,      \* the style elements in document.head that carry the invalidation id
  invalidatedCSS,  \* the origin's invalidatedCSS list in the CSSInvalidator's StorageManager
  lineage,         \* selection mode: a branch of the document, an element then its ancestors below body
  pendingSelection,  \* ElementSelector.pendingSelection, as positions in lineage
  selectedElement, \* ElementSelector.selectedElement: a position in lineage, 0 for null
  isActive,        \* ElementSelector.isActive
  boundHandlers,   \* ElementSelector.boundHandlers is set: the handlers are attached, the overlay shows
  forwarded        \* toggleSelector messages the background has sent to the tab, not yet received

\* The CSSInvalidator's part of the state.
cssVars == <<invalidatedSelectors, styleElement, headStyles, invalidatedCSS>>

pickVars == <<lineage, pendingSelection, selectedElement,
              isActive, boundHandlers, forwarded>>

vars == <<host, page, dom, durable, writes, esPhase, esCache, hiddenElements, darPhase,
          darCache, observing, ioObserved, mutations, restoreList, restoreIdx, now, ops,
          events, invalidatedSelectors, styleElement, headStyles, invalidatedCSS,
          lineage, pendingSelection, selectedElement,
              isActive, boundHandlers, forwarded>>

Ev(kind, name, inst, sel, count, ok) ==
  [kind |-> kind, name |-> name, inst |-> inst, sel |-> sel, count |-> count, ok |-> ok]

Notify(name, sel, count) == Ev("notify", name, "es", sel, count, TRUE)
Resolved(inst, op, sel, changed) == Ev("resolved", op, inst, sel, 0, changed)
Response(name, sel, count, ok) == Ev("response", name, "es", sel, count, ok)
Completed(inst, name) == Ev("completed", name, inst, NoSel, 0, TRUE)

\* One chrome.storage.local.set call: the object it was given, the call that
\* awaits it, and what runs when it completes.
Write(inst, op, sel, cache, cont, count) ==
  [inst |-> inst, op |-> op, sel |-> sel, snap |-> saveToStorage(cache), cont |-> cont,
   count |-> count, live |-> TRUE]

Times(t) == {t, IF t < MaxTime THEN t + 1 ELSE t}

\* A MutationObserver batch is delivered at the microtask checkpoint of the
\* task that changed the document: no other task of the page runs before it.
NoBatchQueued == mutations = <<>>

\* chrome.storage.local serves an extension's calls in the order they were
\* made: a get made by a fresh page completes after the sets the previous page
\* left in flight.
EarlierSetsDone == \A i \in 1..Len(writes) : writes[i].live

Init ==
  /\ host = "a.com"
  /\ page = "live"
  /\ dom = FreshDocument
  /\ durable = EmptyStore
  /\ writes = <<>>
  /\ esPhase = "loading"
  /\ esCache = EmptyStore
  /\ hiddenElements = <<>>
  /\ darPhase = "loading"
  /\ darCache = EmptyStore
  /\ observing = FALSE
  /\ ioObserved = {}
  /\ mutations = <<>>
  /\ restoreList = <<>>
  /\ restoreIdx = 0
  /\ now = 0
  /\ ops = 0
  /\ events = <<>>
  /\ invalidatedSelectors = <<>>
  /\ styleElement = "null"
  /\ headStyles = <<>>
  /\ invalidatedCSS = <<>>
  /\ lineage = <<>>
  /\ pendingSelection = {}
  /\ selectedElement = 0
  /\ isActive = FALSE
  /\ boundHandlers = FALSE
  /\ forwarded = 0

\* ------------------------------------------------------------- page and user

\* A fresh document at origin o: the content scripts start again, the writes
\* already handed to chrome.storage.local still complete.
LoadPage(o) ==
  /\ host' = o
  /\ page' = "live"
  /\ dom' = FreshDocument
  /\ writes' = [i \in 1..Len(writes) |-> [writes[i] EXCEPT !.live = FALSE]]
  /\ esPhase' = "loading"
  /\ esCache' = EmptyStore
  /\ hiddenElements' = <<>>
  /\ darPhase' = "loading"
  /\ darCache' = EmptyStore
  /\ observing' = FALSE
  /\ ioObserved' = {}
  /\ mutations' = <<>>
  /\ restoreList' = <<>>
  /\ restoreIdx' = 0
  /\ events' = <<>>
  /\ UNCHANGED <<durable, now>>

\* The user reloads the tab or navigates it to another origin.
Navigate(o) ==
  /\ NoBatchQueued
  /\ ops < MaxOps
  /\ ops' = ops + 1
  /\ LoadPage(o)
  /\ UNCHANGED <<cssVars, pickVars>>

\* The reload clearRemovedElements asked for.
PageReload ==
  /\ NoBatchQueued
  /\ page = "unloading"
  /\ LoadPage(host)
  /\ UNCHANGED ops
  /\ UNCHANGED <<cssVars, pickVars>>

\* A page script appends a lazily loaded subtree to document.body.
PageAddNode(root) ==
  /\ page = "live"
  /\ Parent[root] = NoParent
  /\ dom[root].att = "pending"
  /\ dom' = [e \in Elements |->
               IF dom[e].att = "pending" /\ (e = root \/ Parent[e] = root)
               THEN [dom[e] EXCEPT !.att = "in"] ELSE dom[e]]
  /\ mutations' = IF observing THEN Append(mutations, root) ELSE mutations
  /\ events' = <<>>
  /\ UNCHANGED <<host, page, durable, writes, esPhase, esCache, hiddenElements, darPhase,
                 darCache, observing, ioObserved, restoreList, restoreIdx, now, ops>>
  /\ UNCHANGED <<cssVars, pickVars>>

\* ------------------------------------------------------------ DomAttrsRemover

\* restoreRemovedElements from rule idx on: removeElements of the first rule
\* that does not throw, up to the chrome.storage.local.set it awaits.
RECURSIVE RestoreFrom(_, _, _, _, _, _)
\* A replay that stops at the first rule whose removeElements throws.
RestoreFromUntilError(list, idx, d, cache, domain, t) ==
  IF idx > Len(list) THEN [dom |-> d, cache |-> cache, idx |-> 0, wrote |-> FALSE]
  ELSE LET r == removeElementsDom(d, list[idx].selector) IN
       IF r.ok
       THEN [dom |-> r.dom,
             cache |-> storeRemovedElement(cache, domain, list[idx].selector, r.type, r.count, t),
             idx |-> idx, wrote |-> TRUE]
       ELSE [dom |-> d, cache |-> cache, idx |-> 0, wrote |-> FALSE]

RestoreFrom(list, idx, d, cache, domain, t) ==
  IF idx > Len(list) THEN [dom |-> d, cache |-> cache, idx |-> 0, wrote |-> FALSE]
  ELSE LET r == removeElementsDom(d, list[idx].selector) IN
       IF r.ok
       THEN [dom |-> r.dom,
             cache |-> storeRemovedElement(cache, domain, list[idx].selector, r.type, r.count, t),
             idx |-> idx, wrote |-> TRUE]
       ELSE RestoreFrom(list, idx + 1, d, cache, domain, t)

RestoreWrite(r, list) == Write("dar", "save", list[r.idx].selector, r.cache, "restore", 0)

\* init(): the storage get completes, the observers are set up and
\* restoreRemovedElements runs to its first await of a storage write.
DarLoaded ==
  /\ page = "live"
  /\ darPhase = "loading"
  /\ EarlierSetsDone
  /\ \E t \in Times(now) :
       LET c == getDomainData(loadFromStorage(durable), host)
           list == c[host].removedElements
           r == RestoreFrom(list, 1, dom, c, host, t)
       IN /\ dom' = r.dom
          /\ darCache' = r.cache
          /\ restoreList' = IF r.wrote THEN list ELSE <<>>
          /\ restoreIdx' = r.idx
          /\ darPhase' = IF r.wrote THEN "restoring" ELSE "ready"
          /\ writes' = IF r.wrote THEN Append(writes, RestoreWrite(r, list)) ELSE writes
          /\ now' = IF r.wrote THEN t ELSE now
          /\ events' = IF r.wrote THEN <<>>
                       ELSE <<Completed("dar", "restoreRemovedElements")>>
  /\ observing' = TRUE
  /\ ioObserved' = {e \in Elements : InDoc(dom, e)}
  /\ UNCHANGED <<host, page, durable, esPhase, esCache, hiddenElements, mutations, ops>>
  /\ UNCHANGED <<cssVars, pickVars>>

\* The MutationObserver callback: handleNewNodes for every record's added nodes.
DeliverMutations ==
  /\ page = "live"
  /\ observing
  /\ mutations # <<>>
  /\ LET c == getDomainData(darCache, host)
     IN /\ darCache' = c
        /\ dom' = handleNewNodes(dom, mutations, c[host].removedElements)
  /\ ioObserved' = ioObserved \cup SeqToSet(mutations)
                     \cup {e \in Elements : \E n \in SeqToSet(mutations) : Below(dom, n, e)}
  /\ mutations' = <<>>
  /\ events' = <<Completed("dar", "handleNewNodes")>>
  /\ UNCHANGED <<host, page, durable, writes, esPhase, esCache, hiddenElements, darPhase,
                 observing, restoreList, restoreIdx, now, ops>>
  /\ UNCHANGED <<cssVars, pickVars>>

\* The IntersectionObserver callback for one target that is intersecting.
VisibilityNotify(e) ==
  /\ NoBatchQueued
  /\ page = "live"
  /\ observing
  /\ e \in ioObserved
  /\ Rendered(dom, e)
  /\ LET c == getDomainData(darCache, host)
     IN /\ darCache' = c
        /\ dom' = processVisibleElement(dom, e, c[host].removedElements)
  /\ events' = <<>>
  /\ UNCHANGED <<host, page, durable, writes, esPhase, esCache, hiddenElements, darPhase,
                 observing, ioObserved, mutations, restoreList, restoreIdx, now, ops>>
  /\ UNCHANGED <<cssVars, pickVars>>

\* ------------------------------------------------------------ ElementSelector

\* init(): the storage get completes, restorePersistedData replays the hidden
\* selectors, the DomAttrsRemover is picked up and the message listener set.
\* The DomAttrsRemover's script runs first and ElementSelector.init waits 100 ms
\* before it asks: its get is the later of the two and completes later.
EsLoaded ==
  /\ NoBatchQueued
  /\ page = "live"
  /\ esPhase = "loading"
  /\ darPhase # "loading"
  /\ EarlierSetsDone
  /\ LET c == getDomainDataSync(loadFromStorage(durable), host)
         r == restorePersistedData(c[host].hidden, dom, hiddenElements)
     IN /\ esCache' = c
        /\ dom' = r.dom
        /\ hiddenElements' = r.hidden
  /\ esPhase' = "ready"
  /\ events' = <<Completed("es", "restorePersistedData")>>
  /\ UNCHANGED <<host, page, durable, writes, darPhase, darCache, observing, ioObserved,
                 mutations, restoreList, restoreIdx, now, ops>>
  /\ UNCHANGED <<cssVars, pickVars>>

\* hideElement: the element is hidden, addHiddenElement is started and not
\* awaited, the popup is notified.  The continuation of addHiddenElement runs
\* before the caller's loop resumes.
hideElement(st, e, domain) ==
  LET d == hideElementDirectly(st.dom, e)
      he == SetAdd(st.hidden, e)
      sel == generateElementSelector(d, e)
      a == addHiddenElement(st.cache, domain, sel)
  IN [dom |-> d,
      hidden |-> he,
      cache |-> a.cache,
      writes |-> IF a.wrote
                 THEN Append(st.writes, Write("es", "add", sel, a.cache, "none", 0))
                 ELSE st.writes,
      events |-> st.events \o <<Notify("elementHidden", sel, Len(he))>>
                   \o (IF a.wrote THEN <<>> ELSE <<Resolved("es", "add", sel, FALSE)>>)]

RECURSIVE HideLoop(_, _, _)
HideLoop(st, order, domain) ==
  IF order = <<>> THEN st
  ELSE HideLoop(hideElement(st, Head(order), domain), Tail(order), domain)

EsState == [dom |-> dom, hidden |-> hiddenElements, cache |-> esCache, writes |-> writes,
            events |-> <<>>]

\* The selections a user can confirm: up to MaxSelect distinct elements, in
\* the order they were clicked.
Orders ==
  UNION {{s \in [1..n -> Elements] : \A i, j \in 1..n : i # j => s[i] # s[j]} :
           n \in 1..MaxSelect}

\* The end of executeHideAction and of executeRemoveAction:
\* pendingSelection.clear(), then deactivateSelector(), which hides the
\* overlay, detaches the handlers and forgets selectedElement; isActive is
\* not assigned.
ClearAndDeactivate ==
  /\ pendingSelection' = {}
  /\ selectedElement' = 0
  /\ boundHandlers' = FALSE
  /\ UNCHANGED <<lineage, isActive, forwarded>>

\* executeHideAction on the confirmed selection, in selection order.
ExecuteHideAction(order) ==
  /\ NoBatchQueued
  /\ page = "live"
  /\ esPhase = "ready"
  /\ ops < MaxOps
  /\ \A i \in 1..Len(order) : Rendered(dom, order[i])
  /\ LET st == HideLoop(EsState, order, host)
     IN /\ dom' = st.dom
        /\ hiddenElements' = st.hidden
        /\ esCache' = st.cache
        /\ writes' = st.writes
        /\ events' = st.events
  /\ ops' = ops + 1
  /\ UNCHANGED <<host, page, durable, esPhase, darPhase, darCache, observing, ioObserved,
                 mutations, restoreList, restoreIdx, now>>
  /\ UNCHANGED cssVars
  /\ ClearAndDeactivate

\* showElement: the display is restored, removeHiddenElement is started and
\* not awaited.
showElement(st, e, domain) ==
  LET d == showElementDom(st.dom, e)
      sel == generateElementSelector(d, e)
      r == removeHiddenElement(st.cache, domain, sel)
  IN [dom |-> d,
      hidden |-> Without(st.hidden, e),
      cache |-> r.cache,
      writes |-> IF r.wrote
                 THEN Append(st.writes, Write("es", "remove", sel, r.cache, "none", 0))
                 ELSE st.writes,
      events |-> st.events
                   \o (IF r.wrote THEN <<>> ELSE <<Resolved("es", "remove", sel, FALSE)>>)]

\* handleRemoveHiddenElement(index); index is 0-based in the message.
HandleRemoveHiddenElement(index) ==
  /\ NoBatchQueued
  /\ page = "live"
  /\ esPhase = "ready"
  /\ ops < MaxOps
  /\ ops' = ops + 1
  /\ IF index >= 0 /\ index < Len(hiddenElements)
     THEN LET st == showElement(EsState, hiddenElements[index + 1], host)
          IN /\ dom' = st.dom
             /\ hiddenElements' = st.hidden
             /\ esCache' = st.cache
             /\ writes' = st.writes
             /\ events' = <<Response("removeHiddenElement", NoSel, Len(st.hidden), TRUE),
                            Notify("elementHidden", NoSel, Len(st.hidden))>> \o st.events
     ELSE /\ events' = <<Response("removeHiddenElement", NoSel, 0, FALSE)>>
          /\ UNCHANGED <<dom, hiddenElements, esCache, writes>>
  /\ UNCHANGED <<host, page, durable, esPhase, darPhase, darCache, observing, ioObserved,
                 mutations, restoreList, restoreIdx, now>>
  /\ UNCHANGED <<cssVars, pickVars>>

RECURSIVE ShowLoop(_, _, _)
ShowLoop(st, els, domain) ==
  IF els = <<>> THEN st
  ELSE ShowLoop(showElement(st, Head(els), domain), Tail(els), domain)

\* clearAllHidden up to its await of clearHiddenElements.
ClearAllHidden ==
  /\ NoBatchQueued
  /\ page = "live"
  /\ esPhase = "ready"
  /\ ops < MaxOps
  /\ ops' = ops + 1
  /\ LET st == ShowLoop(EsState, hiddenElements, host)
         c == clearHiddenElements(st.cache, host)
     IN /\ dom' = st.dom
        /\ hiddenElements' = <<>>
        /\ esCache' = c.cache
        /\ writes' = Append(st.writes, Write("es", "clear", NoSel, c.cache, "clearAll", c.count))
        /\ events' = st.events
  /\ UNCHANGED <<host, page, durable, esPhase, darPhase, darCache, observing, ioObserved,
                 mutations, restoreList, restoreIdx, now>>
  /\ UNCHANGED <<cssVars, pickVars>>

\* handleRemoveElements -> DomAttrsRemover.removeElements, up to the await of
\* the storage write (or to the error response when the selector is rejected).
HandleRemoveElements(sel) ==
  /\ NoBatchQueued
  /\ page = "live"
  /\ esPhase = "ready"
  /\ ops < MaxOps
  /\ ops' = ops + 1
  /\ LET r == removeElementsDom(dom, sel) IN
     IF r.ok
     THEN \E t \in Times(now) :
            LET c == storeRemovedElement(darCache, host, sel, r.type, r.count, t)
            IN /\ dom' = r.dom
               /\ darCache' = c
               /\ writes' = Append(writes, Write("dar", "save", sel, c, "msg", r.count))
               /\ now' = t
               /\ events' = <<>>
     ELSE /\ events' = <<Response("removeElements", sel, 0, FALSE)>>
          /\ UNCHANGED <<dom, darCache, writes, now>>
  /\ UNCHANGED <<host, page, durable, esPhase, esCache, hiddenElements, darPhase, observing,
                 ioObserved, mutations, restoreList, restoreIdx>>
  /\ UNCHANGED <<cssVars, pickVars>>

\* handleClearRemovedElements -> clearRemovedElements, up to the await of the
\* storage write.
HandleClearRemovedElements ==
  /\ NoBatchQueued
  /\ page = "live"
  /\ esPhase = "ready"
  /\ ops < MaxOps
  /\ ops' = ops + 1
  /\ LET c == getDomainData(darCache, host)
         rulesCount == Len(c[host].removedElements)
         c2 == saveDomainData(c, host, [hidden |-> c[host].hidden, removedElements |-> <<>>])
     IN /\ darCache' = c2
        /\ writes' = Append(writes, Write("dar", "save", NoSel, c2, "clearReload", rulesCount))
  /\ events' = <<>>
  /\ UNCHANGED <<host, page, dom, durable, esPhase, esCache, hiddenElements, darPhase,
                 observing, ioObserved, mutations, restoreList, restoreIdx, now>>
  /\ UNCHANGED <<cssVars, pickVars>>

\* --------------------------------------------------------- storage completions

WriteHead == Head(writes)

\* A set completes whose caller only logs (addHiddenElement and
\* removeHiddenElement are not awaited), or whose page is gone.
WriteDone ==
  /\ NoBatchQueued
  /\ writes # <<>>
  /\ ~WriteHead.live \/ WriteHead.cont = "none"
  /\ durable' = WriteHead.snap
  /\ writes' = Tail(writes)
  /\ events' = IF WriteHead.live
               THEN <<Resolved(WriteHead.inst, WriteHead.op, WriteHead.sel, TRUE)>>
               ELSE <<>>
  /\ UNCHANGED <<host, page, dom, esPhase, esCache, hiddenElements, darPhase, darCache,
                 observing, ioObserved, mutations, restoreList, restoreIdx, now, ops>>
  /\ UNCHANGED <<cssVars, pickVars>>

\* removeElements returns to handleRemoveElements, which answers the popup.
WriteDoneRemove ==
  /\ NoBatchQueued
  /\ writes # <<>>
  /\ WriteHead.live /\ WriteHead.cont = "msg"
  /\ durable' = WriteHead.snap
  /\ writes' = Tail(writes)
  /\ events' = <<Resolved("dar", "save", WriteHead.sel, TRUE),
                 Response("removeElements", WriteHead.sel, WriteHead.count, TRUE)>>
  /\ UNCHANGED <<host, page, dom, esPhase, esCache, hiddenElements, darPhase, darCache,
                 observing, ioObserved, mutations, restoreList, restoreIdx, now, ops>>
  /\ UNCHANGED <<cssVars, pickVars>>

\* clearHiddenElements resolves: clearAllHidden notifies and answers.
WriteDoneClearAll ==
  /\ NoBatchQueued
  /\ writes # <<>>
  /\ WriteHead.live /\ WriteHead.cont = "clearAll"
  /\ durable' = WriteHead.snap
  /\ writes' = Tail(writes)
  /\ events' = <<Resolved("es", "clear", NoSel, TRUE),
                 Notify("elementsCleared", NoSel, 0),
                 Response("clearAll", NoSel, 0, TRUE)>>
  /\ UNCHANGED <<host, page, dom, esPhase, esCache, hiddenElements, darPhase, darCache,
                 observing, ioObserved, mutations, restoreList, restoreIdx, now, ops>>
  /\ UNCHANGED <<cssVars, pickVars>>

\* A clearRemovedElements that asks for the reload without awaiting its write.
WriteDoneClearRemovedUnawaited ==
  /\ NoBatchQueued
  /\ writes # <<>>
  /\ WriteHead.live /\ WriteHead.cont = "clearReload"
  /\ writes' = <<[WriteHead EXCEPT !.cont = "none"]>> \o Tail(writes)
  /\ page' = "unloading"
  /\ events' = <<Response("clearRemovedElements", NoSel, WriteHead.count, TRUE)>>
  /\ UNCHANGED <<host, dom, durable, esPhase, esCache, hiddenElements, darPhase, darCache,
                 observing, ioObserved, mutations, restoreList, restoreIdx, now, ops>>
  /\ UNCHANGED <<cssVars, pickVars>>

\* clearRemovedElements: the write is done, window.location.reload() is called.
WriteDoneClearRemoved ==
  /\ NoBatchQueued
  /\ writes # <<>>
  /\ WriteHead.live /\ WriteHead.cont = "clearReload"
  /\ durable' = WriteHead.snap
  /\ writes' = Tail(writes)
  /\ page' = "unloading"
  /\ events' = <<Resolved("dar", "save", NoSel, TRUE),
                 Response("clearRemovedElements", NoSel, WriteHead.count, TRUE)>>
  /\ UNCHANGED <<host, dom, esPhase, esCache, hiddenElements, darPhase, darCache,
                 observing, ioObserved, mutations, restoreList, restoreIdx, now, ops>>
  /\ UNCHANGED <<cssVars, pickVars>>

\* restoreRemovedElements: one rule's removeElements returned, the next runs.
WriteDoneRestore ==
  /\ NoBatchQueued
  /\ writes # <<>>
  /\ WriteHead.live /\ WriteHead.cont = "restore"
  /\ page = "live"
  /\ durable' = WriteHead.snap
  /\ \E t \in Times(now) :
       LET r == RestoreFrom(restoreList, restoreIdx + 1, dom, darCache, host, t)
       IN /\ dom' = r.dom
          /\ darCache' = r.cache
          /\ restoreIdx' = r.idx
          /\ restoreList' = IF r.wrote THEN restoreList ELSE <<>>
          /\ darPhase' = IF r.wrote THEN "restoring" ELSE "ready"
          /\ writes' = IF r.wrote THEN Append(Tail(writes), RestoreWrite(r, restoreList))
                       ELSE Tail(writes)
          /\ now' = IF r.wrote THEN t ELSE now
          /\ events' = <<Resolved("dar", "save", WriteHead.sel, TRUE)>>
                         \o (IF r.wrote THEN <<>>
                             ELSE <<Completed("dar", "restoreRemovedElements")>>)
  /\ UNCHANGED <<host, page, esPhase, esCache, hiddenElements, observing, ioObserved,
                 mutations, ops>>
  /\ UNCHANGED <<cssVars, pickVars>>

\* ------------------------------------------------------------- specification

Next ==
  \/ \E o \in Origins : Navigate(o)
  \/ PageReload
  \/ \E root \in Elements : PageAddNode(root)
  \/ DarLoaded
  \/ DeliverMutations
  \/ \E e \in Elements : VisibilityNotify(e)
  \/ EsLoaded
  \/ \E order \in Orders : ExecuteHideAction(order)
  \/ \E index \in 0..Cardinality(Elements) : HandleRemoveHiddenElement(index)
  \/ ClearAllHidden
  \/ \E sel \in TypedSelectors : HandleRemoveElements(sel)
  \/ HandleClearRemovedElements
  \/ WriteDone
  \/ WriteDoneRemove
  \/ WriteDoneClearAll
  \/ WriteDoneClearRemoved
  \/ WriteDoneRestore

Spec == Init /\ [][Next]_vars

\* The browser runs what it has scheduled: a page that started loading gets
\* its storage answers, a set in flight completes, a queued MutationObserver
\* batch is delivered and a requested reload happens.  Users and page scripts
\* promise nothing, nor does the IntersectionObserver (an element may never
\* scroll into view).
Scheduled ==
  /\ WF_vars(DarLoaded)
  /\ WF_vars(EsLoaded)
  /\ WF_vars(DeliverMutations)
  /\ WF_vars(PageReload)
  /\ WF_vars(WriteDone)
  /\ WF_vars(WriteDoneRemove)
  /\ WF_vars(WriteDoneClearAll)
  /\ WF_vars(WriteDoneClearRemoved)
  /\ WF_vars(WriteDoneRestore)

FairSpec == Spec /\ Scheduled

\* --------------------------------------------------------------------- claims

Happened(ev) == \E i \in 1..Len(events) : events[i] = ev

PersistedHidden(o) == durable[o].hidden

MatchesPersistedHidden(e) ==
  \E i \in 1..Len(PersistedHidden(host)) :
    /\ IsValidCss(PersistedHidden(host)[i])
    /\ Matches(dom, e, PersistedHidden(host)[i])

IsHidden(e) == dom[e].style = "none" /\ dom[e].hid

\* C1: when the bootstrap replay restorePersistedData completes, every element
\* of the document that matches a hidden selector persisted for the origin has
\* display 'none', carries the data-hidethis-hidden marker and is a member of
\* hiddenElements.
C1_RestoreHidesMatches ==
  Happened(Completed("es", "restorePersistedData")) =>
    \A e \in Elements :
      (InDoc(dom, e) /\ MatchesPersistedHidden(e)) =>
        (IsHidden(e) /\ Includes(hiddenElements, e))

\* The replay has just hidden two matching elements and left another alone.
C1_Witness ==
  /\ Happened(Completed("es", "restorePersistedData"))
  /\ \E e, f, g \in Elements :
       /\ e # f
       /\ InDoc(dom, e) /\ MatchesPersistedHidden(e) /\ IsHidden(e)
       /\ InDoc(dom, f) /\ MatchesPersistedHidden(f) /\ IsHidden(f)
       /\ InDoc(dom, g) /\ ~MatchesPersistedHidden(g) /\ ~IsHidden(g)

PersistedRules(o) == durable[o].removedElements

ClassNames == {"ad"}

ClassRulePersisted(c) ==
  \E i \in 1..Len(PersistedRules(host)) :
    /\ PersistedRules(host)[i].type = "class"
    /\ PersistedRules(host)[i].selector = Sel(".", <<c>>)

HasClass(e, c) == Includes(dom[e].cls, c)

\* e is an added node, or a descendant of one, of a batch not yet delivered.
Reported(e) ==
  \E i \in 1..Len(mutations) : mutations[i] = e \/ Below(dom, mutations[i], e)

\* C2: once a class-type removal rule '.c' is persisted, an element carrying
\* class c that the page adds (as an added node or inside an added subtree)
\* eventually loses class c through the MutationObserver callback alone: no
\* new removeElements call is needed for it.
C2_ClassStrippedFromAdded ==
  \A e \in Elements \ Static : \A c \in ClassNames :
    (/\ page = "live" /\ observing
     /\ ClassRulePersisted(c)
     /\ Reported(e) /\ InDoc(dom, e) /\ HasClass(e, c))
      ~> (~InDoc(dom, e) \/ ~HasClass(e, c))

\* The callback has just run over an added subtree whose node and descendant
\* both came with the class; the rule's last sweep had only met one element.
C2_Witness ==
  /\ Happened(Completed("dar", "handleNewNodes"))
  /\ ClassRulePersisted("ad")
  /\ \E i \in 1..Len(PersistedRules(host)) :
       PersistedRules(host)[i].selector = SelAd /\ PersistedRules(host)[i].count = 1
  /\ \E e, f \in Elements \ Static :
       /\ Parent[f] = e
       /\ InDoc(dom, e) /\ Includes(TemplateClass[e], "ad") /\ ~HasClass(e, "ad")
       /\ InDoc(dom, f) /\ Includes(TemplateClass[f], "ad") /\ ~HasClass(f, "ad")
       /\ ~dom[e].proc /\ ~dom[f].proc

\* A step in which the MutationObserver callback processes a batch.
BatchProcessed == observing /\ observing' /\ mutations # <<>> /\ mutations' = <<>>

\* C3: when the batch that reports an added element is processed after the
\* bootstrap, and the element matches a persisted hidden selector, the element
\* is hidden (display 'none' and the hidden marker) by that processing.
C3_AddedElementHidden ==
  [][BatchProcessed /\ esPhase = "ready" =>
       \A e \in Elements :
         (Reported(e) /\ InDoc(dom, e) /\ MatchesPersistedHidden(e)) => IsHidden(e)']_vars

\* The number of elements a sweep of removeElements meets.
SweepCount(d, sel) ==
  IF sel.lead = "#"
  THEN IF \E e \in Elements : InDoc(d, e) /\ Matches(d, e, sel) THEN 1 ELSE 0
  ELSE Cardinality({e \in Elements : InDoc(d, e) /\ Matches(d, e, sel)})

\* Nothing is left for the observers to do: no batch is queued, no write is in
\* flight, and no observed element would change if it were reported visible.
Settled ==
  /\ page = "live" /\ observing
  /\ esPhase = "ready" /\ darPhase = "ready"
  /\ mutations = <<>> /\ writes = <<>>
  /\ \A e \in ioObserved :
       processVisibleElement(dom, e, darCache[host].removedElements) = dom

\* C4: an element that matches a persisted id-type or complex removal rule and
\* was added after the rule's sweep (the sweep met no element, count 0) is
\* deleted from the document once the observers have done their work.
C4_AddedElementDeleted ==
  Settled =>
    \A i \in 1..Len(darCache[host].removedElements) :
      LET rule == darCache[host].removedElements[i] IN
      (/\ rule.type \in {"id", "complex"}
       /\ rule.count = 0
       /\ Includes(PersistedRules(host), rule))
        => SweepCount(dom, rule.selector) = 0

\* A step in which restoreRemovedElements replays one rule.
Replayed == restoreIdx' > restoreIdx

ReplayedRule == restoreList'[restoreIdx']

RuleFor(rules, sel) == {rules[i] : i \in {j \in 1..Len(rules) : rules[j].selector = sel}}

\* C5: restoreRemovedElements replays the persisted removal rules one after
\* the other, none left out; a replayed rule is applied to the document, and
\* one that matches nothing on this load raises no error, stays in the cache
\* and in the object written to storage under the same selector and type, and
\* has its count set to 0.
C5_ReplayKeepsRule ==
  [][/\ Replayed =>
          /\ restoreIdx' = restoreIdx + 1
          /\ IF ReplayedRule.type = "id"
             THEN LET found == QuerySelectorAll(dom, ReplayedRule.selector)
                  IN found = <<>> \/ ~InDoc(dom', Head(found))
             ELSE SweepCount(dom', ReplayedRule.selector) = 0
          /\ writes' # <<>>
          /\ \A store \in {darCache'[host].removedElements,
                           writes'[Len(writes')].snap[host].removedElements} :
               /\ Cardinality(RuleFor(store, ReplayedRule.selector)) = 1
               /\ \A r \in RuleFor(store, ReplayedRule.selector) :
                    /\ r.type = ReplayedRule.type
                    /\ r.count = SweepCount(dom, ReplayedRule.selector)
     /\ (restoreIdx > 0 /\ darPhase' = "ready") => restoreIdx = Len(restoreList)]_vars

\* A replay has just recorded count 0 for a rule that storage still holds with
\* the count of an earlier load.
C5_Witness ==
  /\ darPhase = "restoring"
  /\ restoreIdx > 0
  /\ \E r \in RuleFor(darCache[host].removedElements, restoreList[restoreIdx].selector) :
       r.count = 0
  /\ \E r \in RuleFor(PersistedRules(host), restoreList[restoreIdx].selector) :
       r.count > 0
  /\ writes # <<>> /\ writes[Len(writes)].cont = "restore"

Selectors(rules) == {rules[i].selector : i \in 1..Len(rules)}

\* A step in which a chrome.storage.local.set completes.
SetCompletes == writes # <<>> /\ durable' = WriteHead.snap /\ durable' # durable

\* C6: a hidden selector leaves durable storage only through a completed
\* removeHiddenElement of that selector or clearHiddenElements, and a removal
\* rule only through a completed clearRemovedElements, whatever the order in
\* which the two StorageManager instances of the tab write.
C6_RulesLeaveOnlyExplicitly ==
  [][\A o \in Origins :
       /\ \A sel \in SeqToSet(durable[o].hidden) \ SeqToSet(durable'[o].hidden) :
            /\ SetCompletes
            /\ WriteHead.inst = "es"
            /\ \/ WriteHead.op = "clear"
               \/ WriteHead.op = "remove" /\ WriteHead.sel = sel
       /\ \A sel \in Selectors(durable[o].removedElements)
                       \ Selectors(durable'[o].removedElements) :
            /\ SetCompletes
            /\ WriteHead.inst = "dar"
            /\ WriteHead.cont = "clearReload"]_vars

Unique(sels) == \A i, j \in 1..Len(sels) : i # j => sels[i] # sels[j]

UniqueIn(blob) ==
  \A o \in Origins :
    /\ Unique(blob[o].hidden)
    /\ Unique([i \in 1..Len(blob[o].removedElements) |-> blob[o].removedElements[i].selector])

\* C7: from empty storage, whatever addHiddenElement, removeHiddenElement,
\* clearHiddenElements, storeRemovedElement and clearRemovedElements calls were
\* made, no collection of any origin holds a selector twice: not in storage,
\* not in either instance's cache, not in an object on its way to storage.
C7_SelectorsUnique ==
  /\ UniqueIn(durable)
  /\ UniqueIn(esCache)
  /\ UniqueIn(darCache)
  /\ \A i \in 1..Len(writes) : UniqueIn(writes[i].snap)

\* Two elements with the same generated selector were hidden: the second add
\* met the selector in the list, whose write is on its way to storage.
C7_Witness ==
  \E sel \in SeqToSet(esCache[host].hidden) :
    /\ Happened(Resolved("es", "add", sel, FALSE))
    /\ Cardinality({e \in SeqToSet(hiddenElements) : generateElementSelector(dom, e) = sel}) = 2
    /\ writes # <<>> /\ Includes(writes[Len(writes)].snap[host].hidden, sel)

\* A step in which storeRemovedElement stores a rule for sel: a removeElements
\* command, or a rule replayed by restoreRemovedElements.
StoredNow(sel) ==
  \/ /\ writes' # <<>>
     /\ writes' = Append(writes, writes'[Len(writes')])
     /\ writes'[Len(writes')].cont = "msg"
     /\ writes'[Len(writes')].sel = sel
  \/ Replayed /\ ReplayedRule.selector = sel

\* The removal rules storeRemovedElement starts from.
RulesBefore ==
  IF darPhase = "loading" THEN loadFromStorage(durable)[host].removedElements
  ELSE darCache[host].removedElements

\* hideElement was called in this step for an element whose selector the
\* hidden list already held.
HiddenReAdded(sel) ==
  /\ Includes(esCache[host].hidden, sel)
  /\ \E i \in 1..Len(events') :
       events'[i].kind = "notify" /\ events'[i].name = "elementHidden" /\ events'[i].sel = sel

\* addHiddenElement of a selector already present: the list keeps its entries
\* in place, holds the selector once, and nothing is written for it.
HiddenAddIsNoOp ==
  \A sel \in SeqToSet(esCache[host].hidden) :
    HiddenReAdded(sel) =>
      /\ Len(esCache'[host].hidden) >= Len(esCache[host].hidden)
      /\ SubSeq(esCache'[host].hidden, 1, Len(esCache[host].hidden)) = esCache[host].hidden
      /\ Cardinality({i \in 1..Len(esCache'[host].hidden) : esCache'[host].hidden[i] = sel}) = 1
      /\ \A i \in 1..Len(writes') :
           (writes'[i].op = "add" /\ writes'[i].sel = sel) => Includes(writes, writes'[i])

\* The original reading of C8: every add of a selector already present leaves
\* the collection identical, count and timestamp of a removal rule included.
C8_AddPresentIsNoOp ==
  [][/\ HiddenAddIsNoOp
     /\ \A sel \in Selectors(RulesBefore) :
          StoredNow(sel) => darCache'[host].removedElements = RulesBefore]_vars

\* C8: adding a hidden selector already present is a no-op; storing a removal
\* rule whose selector is already present keeps the collection's length, the
\* rule's position, selector and type and every other record, and replaces the
\* record's count and timestamp by those of the new sweep.
C8_AddPresentKeepsPlace ==
  [][/\ HiddenAddIsNoOp
     /\ \A sel \in Selectors(RulesBefore) :
          StoredNow(sel) =>
            LET before == RulesBefore
                after == darCache'[host].removedElements
                k == FindIndex(before, sel)
            IN /\ Len(after) = Len(before)
               /\ \A j \in 1..Len(before) : j # k => after[j] = before[j]
               /\ after[k] = Rule(sel, before[k].type, SweepCount(dom, sel), now')]_vars

\* A second sweep of a stored rule has just replaced its record: storage holds
\* the first sweep's count, the cache the second's.
C8_Witness ==
  /\ writes # <<>> /\ writes[Len(writes)].cont = "msg"
  /\ \E r \in RuleFor(PersistedRules(host), writes[Len(writes)].sel) :
       \E q \in RuleFor(darCache[host].removedElements, writes[Len(writes)].sel) :
         /\ r.count > q.count
         /\ r.timestamp < q.timestamp
  /\ Len(darCache[host].removedElements) = Len(PersistedRules(host))

CacheOf(inst) == IF inst = "es" THEN esCache ELSE darCache

ResolvedEvents == {events[i] : i \in {j \in 1..Len(events) : events[j].kind = "resolved"}}

\* The original reading of C9: when a mutating call's promise resolves, the
\* origin's collections in storage equal the instance's cache.
C9_DurableEqualsCache ==
  \A ev \in ResolvedEvents :
    /\ durable[host].hidden = CacheOf(ev.inst)[host].hidden
    /\ durable[host].removedElements = CacheOf(ev.inst)[host].removedElements

\* What storage holds once the mutation of a resolved call is in it.
Reflects(ev) ==
  CASE ev.name = "add" -> Includes(durable[host].hidden, ev.sel)
    [] ev.name = "remove" -> ~Includes(durable[host].hidden, ev.sel)
    [] ev.name = "clear" -> durable[host].hidden = <<>>
    [] ev.name = "save" ->
         IF ev.sel = NoSel THEN durable[host].removedElements = <<>>
         ELSE ev.sel \in Selectors(durable[host].removedElements)

\* C9: when the promise of a mutating call that changed its collection
\* resolves, the set it issued has completed and storage holds the mutation:
\* the added selector, the removal, the emptied list, the saved rule.
C9_DurableReflectsMutation ==
  \A ev \in ResolvedEvents : ev.ok => (durable[host].present /\ Reflects(ev))

\* The first of two adds made in one executeHideAction has just resolved:
\* storage holds its selector, the cache already holds the second one too.
C9_Witness ==
  \E ev \in ResolvedEvents :
    /\ ev.ok /\ ev.name = "add"
    /\ Includes(durable[host].hidden, ev.sel)
    /\ Len(esCache[host].hidden) = 2
    /\ Len(durable[host].hidden) = 1
    /\ Len(writes) = 1

\* C10: the 'elementHidden' notification of an interactive hide is sent only
\* once the storage write of the new hidden selector has completed.
C10_NotifiedAfterWrite ==
  \A i \in 1..Len(events) :
    (events[i].kind = "notify" /\ events[i].name = "elementHidden" /\ events[i].sel # NoSel)
      => Includes(durable[host].hidden, events[i].sel)

\* ------------------------------------------------- the Hide applier on its own

\* The inline display values a page's markup gives its elements.
InlineDisplays == {"", "none", "flex"}

Applied(op, e) == Ev("applied", op, e, NoSel, 0, TRUE)

\* Any document of the template, each element with any inline display; the
\* ElementSelector is ready and nothing is stored.
ApplierInit ==
  /\ host = "a.com"
  /\ page = "live"
  /\ dom \in {d \in [Elements -> {[FreshElement(e) EXCEPT !.style = v] :
                                     e \in Elements, v \in InlineDisplays}] :
                \A e \in Elements : [d[e] EXCEPT !.style = ""] = FreshElement(e)}
  /\ durable = EmptyStore
  /\ writes = <<>>
  /\ esPhase = "ready"
  /\ esCache = getDomainDataSync(EmptyStore, "a.com")
  /\ hiddenElements = <<>>
  /\ darPhase = "ready"
  /\ darCache = getDomainDataSync(EmptyStore, "a.com")
  /\ observing = FALSE
  /\ ioObserved = {}
  /\ mutations = <<>>
  /\ restoreList = <<>>
  /\ restoreIdx = 0
  /\ now = 0
  /\ ops = 0
  /\ events = <<>>
  /\ invalidatedSelectors = <<>>
  /\ styleElement = "null"
  /\ headStyles = <<>>
  /\ invalidatedCSS = <<>>
  /\ lineage = <<>>
  /\ pendingSelection = {}
  /\ selectedElement = 0
  /\ isActive = FALSE
  /\ boundHandlers = FALSE
  /\ forwarded = 0

\* hideElementDirectly(element)
ApplyHide(e) ==
  /\ dom' = hideElementDirectly(dom, e)
  /\ hiddenElements' = SetAdd(hiddenElements, e)
  /\ events' = <<Applied("hideElementDirectly", e)>>
  /\ UNCHANGED <<host, page, durable, writes, esPhase, esCache, darPhase, darCache, observing,
                 ioObserved, mutations, restoreList, restoreIdx, now, ops>>
  /\ UNCHANGED <<cssVars, pickVars>>

\* showElement(element)
ApplyShow(e) ==
  /\ LET st == showElement(EsState, e, host)
     IN /\ dom' = st.dom
        /\ hiddenElements' = st.hidden
        /\ esCache' = st.cache
        /\ writes' = st.writes
  /\ events' = <<Applied("showElement", e)>>
  /\ UNCHANGED <<host, page, durable, esPhase, darPhase, darCache, observing, ioObserved,
                 mutations, restoreList, restoreIdx, now, ops>>
  /\ UNCHANGED <<cssVars, pickVars>>

\* hideElementDirectly(element) followed by showElement(element)
ApplyHideThenShow(e) ==
  /\ LET hidden == [EsState EXCEPT !.dom = hideElementDirectly(dom, e),
                                   !.hidden = SetAdd(hiddenElements, e)]
         st == showElement(hidden, e, host)
     IN /\ dom' = st.dom
        /\ hiddenElements' = st.hidden
        /\ esCache' = st.cache
        /\ writes' = st.writes
  /\ events' = <<Applied("hideThenShow", e)>>
  /\ UNCHANGED <<host, page, durable, esPhase, darPhase, darCache, observing, ioObserved,
                 mutations, restoreList, restoreIdx, now, ops>>
  /\ UNCHANGED <<cssVars, pickVars>>

ApplierNext ==
  \/ \E e \in Elements : ApplyHide(e)
  \/ \E e \in Elements : ApplyShow(e)
  \/ \E e \in Elements : ApplyHideThenShow(e)

ApplierSpec == ApplierInit /\ [][ApplierNext]_vars

\* C11: applying hideElementDirectly to an element it has already hidden
\* changes nothing: the original-display marker keeps the value recorded by
\* the first application, display stays 'none' and the hidden set holds the
\* element once.
C11_HideTwiceIsHideOnce ==
  [][\A e \in Elements :
       (/\ dom[e].hid /\ Includes(hiddenElements, e)
        /\ events' = <<Applied("hideElementDirectly", e)>>)
         => (dom' = dom /\ hiddenElements' = hiddenElements)]_vars

\* C14: hideElementDirectly followed by showElement gives the element the
\* display it had before, removes both marker attributes and takes the
\* element out of the hidden set, whatever display the element started with.
C14_HideShowRoundTrip ==
  [][\A e \in Elements :
       (~dom[e].hid /\ events' = <<Applied("hideThenShow", e)>>)
         => /\ Computed(dom', e) = Computed(dom, e)
            /\ ~dom'[e].hid
            /\ dom'[e].orig = NoAttr
            /\ ~Includes(hiddenElements', e)]_vars

\* ------------------------------------------------ the CSSInvalidator on its own

\* What a caller can pass to invalidateSelector and restoreSelector.
InvalidatorSelectors == {SelAd, SelM, SelAttr, SelSpan, SelBad, SelBadClass, SelBadId, SelBadAttr}

\* generateInvalidationRule(selector): the template under the selector, under
\* 'html selector' and under 'html body selector'.
generateInvalidationRule(sel) ==
  <<[scope |-> "", selector |-> sel],
    [scope |-> "html", selector |-> sel],
    [scope |-> "html body", selector |-> sel]>>

\* cssRules.join('\n') over Array.from(invalidatedSelectors)
RECURSIVE JoinRules(_)
JoinRules(sels) ==
  IF sels = <<>> THEN <<>> ELSE generateInvalidationRule(Head(sels)) \o JoinRules(Tail(sels))

isValidSelector(sel) ==
  /\ sel.lead \in {".", "#", "["}
  /\ sel.names # <<>>
  /\ (sel.lead = "[" => sel.names[Len(sel.names)] = "x]")
  /\ IsValidCss(sel)

\* createStyleElement's effect on document.head: the first element with the
\* id is removed and a new, empty style element is appended, which
\* this.styleElement then references.
createStyleElement(head) ==
  LET rest == IF head = <<>> THEN <<>> ELSE Tail(head)
  IN [i \in 1..Len(rest) |-> [rest[i] EXCEPT !.mine = FALSE]] \o <<[text |-> <<>>, mine |-> TRUE]>>

\* updateStyleElement: the text goes to the element this.styleElement
\* references, which is in document.head or detached from it.
updateStyleElement(sels, ref, head) ==
  LET h == IF ref = "null" THEN createStyleElement(head) ELSE head
  IN [i \in 1..Len(h) |-> IF h[i].mine THEN [h[i] EXCEPT !.text = JoinRules(sels)] ELSE h[i]]

\* StorageManager.addInvalidatedCSS / removeInvalidatedCSS / clearInvalidatedCSS
\* on the origin's list, with the saveToStorage they await.
addInvalidatedCSS(list, sel) == IF Includes(list, sel) THEN list ELSE Append(list, sel)

removeInvalidatedCSS(list, sel) ==
  IF IndexOf(list, sel) > 0 THEN RemoveAt(list, IndexOf(list, sel)) ELSE list

clearInvalidatedCSS(list) == <<>>

Returned(name, sel, count, ok) == Ev("returned", name, "css", sel, count, ok)

\* new CSSInvalidator(storageManager) has run on a page of a.com.
InvalidatorInit ==
  /\ host = "a.com"
  /\ page = "live"
  /\ dom = FreshDocument
  /\ durable = EmptyStore
  /\ writes = <<>>
  /\ esPhase = "ready"
  /\ esCache = getDomainDataSync(EmptyStore, "a.com")
  /\ hiddenElements = <<>>
  /\ darPhase = "ready"
  /\ darCache = getDomainDataSync(EmptyStore, "a.com")
  /\ observing = FALSE
  /\ ioObserved = {}
  /\ mutations = <<>>
  /\ restoreList = <<>>
  /\ restoreIdx = 0
  /\ now = 0
  /\ ops = 0
  /\ events = <<>>
  /\ invalidatedSelectors = <<>>
  /\ styleElement = "element"
  /\ headStyles = createStyleElement(<<>>)
  /\ invalidatedCSS = <<>>
  /\ lineage = <<>>
  /\ pendingSelection = {}
  /\ selectedElement = 0
  /\ isActive = FALSE
  /\ boundHandlers = FALSE
  /\ forwarded = 0

restVars == <<host, page, dom, durable, writes, esPhase, esCache, hiddenElements, darPhase,
              darCache, observing, ioObserved, mutations, restoreList, restoreIdx, now, ops,
              lineage, pendingSelection, selectedElement,
              isActive, boundHandlers, forwarded>>

\* invalidateSelector(selector)
InvalidateSelector(sel) ==
  /\ IF ~isValidSelector(sel)
     THEN /\ events' = <<Returned("invalidateSelector", sel, Len(invalidatedSelectors), FALSE)>>
          /\ UNCHANGED <<cssVars, pickVars>>
     ELSE IF Includes(invalidatedSelectors, sel)
     THEN /\ events' = <<Returned("invalidateSelector", sel, Len(invalidatedSelectors), TRUE)>>
          /\ UNCHANGED <<cssVars, pickVars>>
     ELSE /\ invalidatedSelectors' = Append(invalidatedSelectors, sel)
          /\ headStyles' = updateStyleElement(invalidatedSelectors', styleElement, headStyles)
          /\ styleElement' = "element"
          /\ invalidatedCSS' = addInvalidatedCSS(invalidatedCSS, sel)
          /\ events' = <<Returned("invalidateSelector", sel, Len(invalidatedSelectors'), TRUE)>>
  /\ UNCHANGED restVars

\* restoreSelector(selector)
RestoreInvalidated(sel) ==
  /\ IF Includes(invalidatedSelectors, sel)
     THEN /\ invalidatedSelectors' = Without(invalidatedSelectors, sel)
          /\ headStyles' = updateStyleElement(invalidatedSelectors', styleElement, headStyles)
          /\ styleElement' = "element"
          /\ invalidatedCSS' = removeInvalidatedCSS(invalidatedCSS, sel)
          /\ events' = <<Returned("restoreSelector", sel, Len(invalidatedSelectors'), TRUE)>>
     ELSE /\ events' = <<Returned("restoreSelector", sel, Len(invalidatedSelectors), FALSE)>>
          /\ UNCHANGED <<cssVars, pickVars>>
  /\ UNCHANGED restVars

\* clearAllInvalidated()
ClearAllInvalidated ==
  /\ invalidatedSelectors' = <<>>
  /\ headStyles' = updateStyleElement(<<>>, styleElement, headStyles)
  /\ styleElement' = "element"
  /\ invalidatedCSS' = clearInvalidatedCSS(invalidatedCSS)
  /\ events' = <<Returned("clearAllInvalidated", NoSel, Len(invalidatedSelectors), TRUE)>>
  /\ UNCHANGED restVars

\* The page replaces the content of document.head (a single-page application
\* navigating): the style element is no longer in the document.
PageDropsStyle ==
  /\ headStyles # <<>>
  /\ headStyles' = <<>>
  /\ events' = <<>>
  /\ UNCHANGED <<invalidatedSelectors, styleElement, invalidatedCSS>>
  /\ UNCHANGED restVars

\* The timeout set by the pushState / replaceState / popstate hooks: calls
\* createStyleElement() when no element with the id is in the document.
SpaNavigated ==
  /\ headStyles = <<>>
  /\ headStyles' = createStyleElement(headStyles)
  /\ styleElement' = "element"
  /\ events' = <<Returned("createStyleElement", NoSel, Len(invalidatedSelectors), TRUE)>>
  /\ UNCHANGED <<invalidatedSelectors, invalidatedCSS>>
  /\ UNCHANGED restVars

InvalidatorNext ==
  \/ \E sel \in InvalidatorSelectors : InvalidateSelector(sel)
  \/ \E sel \in InvalidatorSelectors : RestoreInvalidated(sel)
  \/ ClearAllInvalidated
  \/ PageDropsStyle
  \/ SpaNavigated

InvalidatorSpec == InvalidatorInit /\ [][InvalidatorNext]_vars

\* The rules the document's invalidation style elements hold for a selector.
BlocksFor(head, sel) ==
  [i \in 1..Len(head) |-> SelectSeq(head[i].text, LAMBDA r : r.selector = sel)]

CalledWith(name, sel) ==
  \E n \in 0..Cardinality(InvalidatorSelectors), ok \in BOOLEAN :
    events = <<Returned(name, sel, n, ok)>>

\* C12: invalidateSelector on a selector that is already invalidated, with the
\* style element in the document, leaves
\* the invalidated set, the style element's content and the persisted
\* invalidatedCSS list as they were, and afterwards the document's style
\* element holds exactly one three-rule block for the selector.
C12_ReinvalidateIsNoOp ==
  [][\A sel \in InvalidatorSelectors :
       (/\ Includes(invalidatedSelectors, sel)
        /\ headStyles # <<>>
        /\ CalledWith("invalidateSelector", sel)')
         => /\ UNCHANGED <<cssVars, pickVars>>
            /\ BlocksFor(headStyles', sel) = <<generateInvalidationRule(sel)>>]_vars

\* C13: after a call of invalidateSelector, restoreSelector,
\* clearAllInvalidated or createStyleElement the document holds exactly one
\* invalidation style element, whose content is the rule blocks of the
\* selectors in invalidatedSelectors, in insertion order, and nothing else.
C13_OneStyleElementMirrorsSet ==
  (\E sel \in InvalidatorSelectors \cup {NoSel} :
      \E name \in {"invalidateSelector", "restoreSelector", "clearAllInvalidated",
                   "createStyleElement"} : CalledWith(name, sel))
    => /\ Len(headStyles) = 1
       /\ headStyles[1].text = JoinRules(invalidatedSelectors)

\* ------------------------------------------------- strings that are not CSS

\* Typed strings that are not valid CSS and start like a class or an id
\* selector (SelBad, which starts like neither, is among TypedSelectors).
MistypedSelectors == {SelBadClass, SelBadId}

AnyStringNext ==
  \/ Next
  \/ \E sel \in MistypedSelectors : HandleRemoveElements(sel)

AnyStringSpec == Init /\ [][AnyStringNext]_vars

InvalidStrings == {sel \in TypedSelectors \cup MistypedSelectors : ~IsValidCss(sel)}

\* C15: removeElements answers a string that is not valid CSS with a failure,
\* whatever its first character, and no rule with that string is in the
\* instance's cache or in storage.
C15_InvalidSelectorRejected ==
  \A sel \in InvalidStrings :
    /\ \A n \in 0..Cardinality(Elements) : ~Happened(Response("removeElements", sel, n, TRUE))
    /\ \A o \in Origins :
         /\ RuleFor(darCache[o].removedElements, sel) = {}
         /\ RuleFor(durable[o].removedElements, sel) = {}

\* ------------------------------------------------------ a sweep that finds nothing

\* A step in which handleRemoveElements runs removeElements(sel): the rule's
\* write is started, or the command is answered with a failure.
RemoveCommand(sel) ==
  /\ ops' = ops + 1
  /\ \/ /\ writes' # <<>>
        /\ writes' = Append(writes, writes'[Len(writes')])
        /\ writes'[Len(writes')].inst = "dar"
        /\ writes'[Len(writes')].cont = "msg"
        /\ writes'[Len(writes')].sel = sel
     \/ \E n \in 0..Cardinality(Elements) :
          events' = <<Response("removeElements", sel, n, FALSE)>>

ZeroRule(rules, sel) ==
  \E r \in RuleFor(rules, sel) : r.count = 0 /\ r.type = RemovalType(sel)

\* C16: removeElements with a valid selector that matches no element of the
\* document does not fail: it stores the rule with count 0 for the origin and
\* starts its write, and when the command is answered the answer is a success
\* with count 0 and the rule is in the origin's removedElements in storage.
C16_NoMatchIsSuccess ==
  /\ [][\A sel \in TypedSelectors :
          (IsValidCss(sel) /\ SweepCount(dom, sel) = 0 /\ RemoveCommand(sel))
            => /\ writes' # <<>>
               /\ writes'[Len(writes')].count = 0
               /\ ZeroRule(writes'[Len(writes')].snap[host].removedElements, sel)
               /\ ZeroRule(darCache'[host].removedElements, sel)]_vars
  /\ [](\A sel \in TypedSelectors :
          Happened(Response("removeElements", sel, 0, TRUE))
            => ZeroRule(PersistedRules(host), sel))

C16_Witness ==
  \E sel \in TypedSelectors :
    /\ Happened(Response("removeElements", sel, 0, TRUE))
    /\ SweepCount(FreshDocument, sel) = 0
    /\ ZeroRule(PersistedRules(host), sel)

\* ------------------------------------------------------ storage unavailable

\* chrome.storage.local.get rejects: StorageManager.init throws, and
\* DomAttrsRemover.init catches it before it sets initialized, sets up the
\* observers or replays anything.
DarInitFailed ==
  /\ page = "live"
  /\ darPhase = "loading"
  /\ darPhase' = "failed"
  /\ events' = <<>>
  /\ UNCHANGED <<host, page, dom, durable, writes, esPhase, esCache, hiddenElements, darCache,
                 observing, ioObserved, mutations, restoreList, restoreIdx, now, ops>>
  /\ UNCHANGED <<cssVars, pickVars>>

\* initializeStorageManager catches the same failure: the StorageManager
\* object stays assigned, uninitialised, and nothing is restored.
EsInitFailed ==
  /\ page = "live"
  /\ esPhase = "loading"
  /\ darPhase # "loading"
  /\ esPhase' = "failed"
  /\ events' = <<>>
  /\ UNCHANGED <<host, page, dom, durable, writes, esCache, hiddenElements, darPhase, darCache,
                 observing, ioObserved, mutations, restoreList, restoreIdx, now, ops>>
  /\ UNCHANGED <<cssVars, pickVars>>

Rejected(inst, op, sel) == Ev("rejected", op, inst, sel, 0, FALSE)

\* hideElement when addHiddenElement rejects (ensureInitialized fails again):
\* the rejection is logged, the element is hidden and the popup notified.
hideElementUnpersisted(st, e) ==
  LET d == hideElementDirectly(st.dom, e)
      he == SetAdd(st.hidden, e)
      sel == generateElementSelector(d, e)
  IN [st EXCEPT !.dom = d, !.hidden = he,
                !.events = st.events \o <<Notify("elementHidden", sel, Len(he)),
                                          Rejected("es", "add", sel)>>]

RECURSIVE HideLoopUnpersisted(_, _)
HideLoopUnpersisted(st, order) ==
  IF order = <<>> THEN st
  ELSE HideLoopUnpersisted(hideElementUnpersisted(st, Head(order)), Tail(order))

\* executeHideAction while storage is unavailable.
ExecuteHideActionUnpersisted(order) ==
  /\ page = "live"
  /\ esPhase = "failed"
  /\ ops < MaxOps
  /\ \A i \in 1..Len(order) : Rendered(dom, order[i])
  /\ LET st == HideLoopUnpersisted(EsState, order)
     IN /\ dom' = st.dom
        /\ hiddenElements' = st.hidden
        /\ events' = st.events
  /\ ops' = ops + 1
  /\ UNCHANGED <<host, page, durable, writes, esPhase, esCache, darPhase, darCache, observing,
                 ioObserved, mutations, restoreList, restoreIdx, now>>
  /\ UNCHANGED <<cssVars, pickVars>>

\* handleRemoveElements while DomAttrsRemover.initialized is false:
\* removeElements throws 'DomAttrsRemover not initialized' before it looks at
\* the document and the handler answers with the error.
HandleRemoveElementsUninitialized(sel) ==
  /\ page = "live"
  /\ esPhase = "failed"
  /\ darPhase = "failed"
  /\ ops < MaxOps
  /\ ops' = ops + 1
  /\ events' = <<Response("removeElements", sel, 0, FALSE)>>
  /\ UNCHANGED <<host, page, dom, durable, writes, esPhase, esCache, hiddenElements, darPhase,
                 darCache, observing, ioObserved, mutations, restoreList, restoreIdx, now>>
  /\ UNCHANGED <<cssVars, pickVars>>

StorageDownNext ==
  \/ \E o \in Origins : Navigate(o)
  \/ \E root \in Elements : PageAddNode(root)
  \/ DarInitFailed
  \/ EsInitFailed
  \/ \E order \in Orders : ExecuteHideActionUnpersisted(order)
  \/ \E sel \in TypedSelectors : HandleRemoveElementsUninitialized(sel)

StorageDownSpec == Init /\ [][StorageDownNext]_vars

\* C17: with the persistence layer unavailable the commands still work in
\* memory: every element a hide command was notified for is hidden in the
\* document, and a removeElements command with a valid selector is answered
\* with success.
C17_WorksWithoutStorage ==
  /\ \A e \in Elements :
       (\E n \in 1..Cardinality(Elements) :
           Happened(Notify("elementHidden", generateElementSelector(dom, e), n))
           /\ Includes(hiddenElements, e))
         => IsHidden(e)
  /\ \A sel \in TypedSelectors :
       IsValidCss(sel)
         => \A n \in 0..Cardinality(Elements) :
              ~Happened(Response("removeElements", sel, n, FALSE))

\* ------------------------------------------- bootstrap over what storage holds

MaxStored == 2

\* Sequences without repetition of at most n members of S.
Lists(S, n) ==
  UNION {{q \in [1..k -> S] : \A i, j \in 1..k : i # j => q[i] # q[j]} : k \in 0..n}

\* Hidden selectors earlier sessions can have stored: what
\* generateElementSelector made of an element's id or classes, unescaped, so
\* '#!!' (an id that is no CSS identifier) is among them.
StoredHidden == Lists({SelAd, SelM, SelBadId}, MaxStored)

\* A removedElements entry without a selector field: the bare class-name
\* string addRemovedClass pushes and the older removedClasses schema held.
LegacyEntry == [selector |-> NoSel, type |-> "unknown", count |-> 0, timestamp |-> 0]

StoredRules ==
  Lists({Rule(SelAd, "class", 1, 0), Rule(SelM, "id", 1, 0), Rule(SelSpan, "complex", 0, 0),
         LegacyEntry}, MaxStored)

\* A tab opens a.com with the origin's collections in storage.
BootstrapInit ==
  /\ host = "a.com"
  /\ page = "live"
  /\ dom = FreshDocument
  /\ durable \in {[o \in Origins |->
                     IF o = "a.com"
                     THEN [present |-> TRUE, hidden |-> h, removedElements |-> r]
                     ELSE Absent] : h \in StoredHidden, r \in StoredRules}
  /\ writes = <<>>
  /\ esPhase = "loading"
  /\ esCache = EmptyStore
  /\ hiddenElements = <<>>
  /\ darPhase = "loading"
  /\ darCache = EmptyStore
  /\ observing = FALSE
  /\ ioObserved = {}
  /\ mutations = <<>>
  /\ restoreList = <<>>
  /\ restoreIdx = 0
  /\ now = 0
  /\ ops = 0
  /\ events = <<>>
  /\ invalidatedSelectors = <<>>
  /\ styleElement = "null"
  /\ headStyles = <<>>
  /\ invalidatedCSS = <<>>
  /\ lineage = <<>>
  /\ pendingSelection = {}
  /\ selectedElement = 0
  /\ isActive = FALSE
  /\ boundHandlers = FALSE
  /\ forwarded = 0

BootstrapNext ==
  \/ DarLoaded
  \/ WriteDoneRestore
  \/ EsLoaded

BootstrapSpec == BootstrapInit /\ [][BootstrapNext]_vars

\* A persisted entry whose replay throws.
FailsOnReplay(sel) == sel = NoSel \/ ~IsValidCss(sel)

\* What the sweep of a removal rule leaves: no element with the class, the
\* document's first element with the id gone, no match of the selector.
SweptFor(sel) ==
  IF RemovalType(sel) = "id"
  THEN \/ GetElementById(FreshDocument, sel.names) = <<>>
       \/ ~InDoc(dom, Head(GetElementById(FreshDocument, sel.names)))
  ELSE SweepCount(dom, sel) = 0

\* C18: when restorePersistedData has run, every element matching a valid
\* persisted hidden selector is hidden although other selectors of the list
\* threw; when restoreRemovedElements has run, every persisted removal rule
\* that can be applied has been applied although other entries of the list
\* threw.
C18_SweepSurvivesFailures ==
  /\ Happened(Completed("es", "restorePersistedData"))
       => \A i \in 1..Len(PersistedHidden(host)) :
            ~FailsOnReplay(PersistedHidden(host)[i])
              => \A e \in Elements :
                   (InDoc(dom, e) /\ Matches(dom, e, PersistedHidden(host)[i])) => IsHidden(e)
  /\ Happened(Completed("dar", "restoreRemovedElements"))
       => \A i \in 1..Len(darCache[host].removedElements) :
            ~FailsOnReplay(darCache[host].removedElements[i].selector)
              => SweptFor(darCache[host].removedElements[i].selector)

C18_Witness ==
  /\ Happened(Completed("es", "restorePersistedData"))
  /\ darPhase = "ready"
  /\ Len(PersistedHidden(host)) = 2
  /\ FailsOnReplay(PersistedHidden(host)[1])
  /\ \E e \in Elements : Matches(dom, e, PersistedHidden(host)[2]) /\ IsHidden(e)
  /\ Len(darCache[host].removedElements) = 2
  /\ FailsOnReplay(darCache[host].removedElements[1].selector)
  /\ darCache[host].removedElements[2].count > 0
  /\ SweptFor(darCache[host].removedElements[2].selector)

\* ------------------------------------------------------------- a second tab

\* Another tab, open at origin o, has just loaded storage, hides an element
\* whose selector is '.ad' and its chrome.storage.local.set completes: the
\* stored object gains the selector in o's hidden list.
OtherTabStores(o) ==
  /\ NoBatchQueued
  /\ o # host
  /\ ~Includes(durable[o].hidden, SelAd)
  /\ durable' = [durable EXCEPT ![o] = [present |-> TRUE,
                                        hidden |-> Append(durable[o].hidden, SelAd),
                                        removedElements |-> durable[o].removedElements]]
  /\ events' = <<Ev("stored", "addHiddenElement", "tab2", SelAd, 0, TRUE)>>
  /\ UNCHANGED <<host, page, dom, writes, esPhase, esCache, hiddenElements, darPhase, darCache,
                 observing, ioObserved, mutations, restoreList, restoreIdx, now, ops>>
  /\ UNCHANGED <<cssVars, pickVars>>

TabsNext ==
  \/ Next
  \/ \E o \in Origins : OtherTabStores(o)

TabsSpec == Init /\ [][TabsNext]_vars

\* A step in which a set made by this page's instances completes.
OwnSetCompletes == writes # <<>> /\ WriteHead.live /\ durable' = WriteHead.snap

\* C19: a mutation the tab's instances perform for the origin they are at
\* leaves every other origin's collections as they were, in the instance's
\* cache and, when its write completes, in storage, also after another tab
\* stored rules for the other origin.
C19_OtherOriginsUntouched ==
  [][\A o \in Origins \ {host} :
       /\ OwnSetCompletes => durable'[o] = durable[o]
       /\ (host' = host /\ esPhase = "ready" /\ esPhase' = "ready") => esCache'[o] = esCache[o]
       /\ (host' = host /\ darPhase # "loading" /\ darPhase' # "loading")
            => darCache'[o] = darCache[o]]_vars

\* ------------------------------------------------------ the reconciler's phases

\* The document is replaced by a fresh one, whose content scripts start again.
FreshPage == darPhase' = "loading" /\ esPhase' = "loading"

\* C20: the MutationObserver and the IntersectionObserver are connected only
\* once restoreRemovedElements has finished replaying the persisted rules,
\* and once connected they stay connected for as long as the document lives.
C20_ObservesAfterBootstrap ==
  /\ [](observing => darPhase = "ready")
  /\ [][(observing /\ ~observing') => FreshPage]_vars

\* --------------------------------------------------- the two change channels

\* Documents of the template with every element attached, each with or
\* without the further class 'x'.
ClassyDocuments ==
  {d \in [Elements -> UNION {{[FreshElement(e) EXCEPT !.att = "in", !.cls = c] :
                                c \in {TemplateClass[e], TemplateClass[e] \o <<"x">>}} :
                               e \in Elements}] :
     \A e \in Elements :
       \E c \in {TemplateClass[e], TemplateClass[e] \o <<"x">>} :
         d[e] = [FreshElement(e) EXCEPT !.att = "in", !.cls = c]}

\* Removal rules a session can have stored: one class, the class 'x', two
\* classes joined, an id.
ChannelRules ==
  Lists({Rule(SelAd, "class", 1, 0), Rule(Sel(".", <<"x">>), "class", 1, 0),
         Rule(Sel(".", <<"ad", "x">>), "class", 0, 0), Rule(SelM, "id", 1, 0)}, MaxStored)

RulesStore(rules) ==
  [o \in Origins |->
     IF o = "a.com" THEN [present |-> TRUE, hidden |-> <<>>, removedElements |-> rules]
     ELSE Absent]

\* Both instances are ready at a.com, the observers are connected, the rules
\* are in storage and in the DomAttrsRemover's cache.
ChannelInit ==
  /\ host = "a.com"
  /\ page = "live"
  /\ dom \in ClassyDocuments
  /\ durable \in {RulesStore(r) : r \in ChannelRules}
  /\ writes = <<>>
  /\ esPhase = "ready"
  /\ esCache = loadFromStorage(durable)
  /\ hiddenElements = <<>>
  /\ darPhase = "ready"
  /\ darCache = loadFromStorage(durable)
  /\ observing = TRUE
  /\ ioObserved = {}
  /\ mutations = <<>>
  /\ restoreList = <<>>
  /\ restoreIdx = 0
  /\ now = 0
  /\ ops = 0
  /\ events = <<>>
  /\ invalidatedSelectors = <<>>
  /\ styleElement = "null"
  /\ headStyles = <<>>
  /\ invalidatedCSS = <<>>
  /\ lineage = <<>>
  /\ pendingSelection = {}
  /\ selectedElement = 0
  /\ isActive = FALSE
  /\ boundHandlers = FALSE
  /\ forwarded = 0

Callback(name, node) == Ev("callback", name, node, NoSel, 0, TRUE)

\* The MutationObserver callback for a record whose addedNodes is <<node>>.
MutationCallback(node) ==
  /\ observing
  /\ LET c == getDomainData(darCache, host)
     IN /\ darCache' = c
        /\ dom' = handleNewNodes(dom, <<node>>, c[host].removedElements)
  /\ ioObserved' = ioObserved \cup {node} \cup {e \in Elements : Below(dom, node, e)}
  /\ events' = <<Callback("handleNewNodes", node)>>
  /\ UNCHANGED <<host, page, durable, writes, esPhase, esCache, hiddenElements, darPhase,
                 observing, mutations, restoreList, restoreIdx, now, ops>>
  /\ UNCHANGED <<cssVars, pickVars>>

\* The IntersectionObserver callback for an entry whose target is node.
VisibilityCallback(node) ==
  /\ observing
  /\ LET c == getDomainData(darCache, host)
     IN /\ darCache' = c
        /\ dom' = processVisibleElement(dom, node, c[host].removedElements)
  /\ events' = <<Callback("processVisibleElement", node)>>
  /\ UNCHANGED <<host, page, durable, writes, esPhase, esCache, hiddenElements, darPhase,
                 observing, ioObserved, mutations, restoreList, restoreIdx, now, ops>>
  /\ UNCHANGED <<cssVars, pickVars>>

ChannelNext ==
  \/ \E node \in Elements : MutationCallback(node)
  \/ \E node \in Elements : VisibilityCallback(node)

ChannelSpec == ChannelInit /\ [][ChannelNext]_vars

CachedRules == darCache[host].removedElements

\* Where the callbacks for a node lead: the document after handleNewNodes.
Settles(d, node) == handleNewNodes(d, <<node>>, CachedRules)

CallbackFor(node) ==
  \E name \in {"handleNewNodes", "processVisibleElement"} : events' = <<Callback(name, node)>>

\* C21: for a node and a fixed set of persisted rules the callbacks of the
\* two channels commute and repeat without effect: whichever callback runs
\* for the node, the document that a mutation callback for the node leads to
\* stays the same, the visibility callback changes nothing once the mutation
\* callback has run and leaves the node itself as the mutation callback
\* would, and no callback changes a rule in the cache or in storage.
C21_ChannelsCommute ==
  [][\A node \in Elements :
       CallbackFor(node)
         => /\ Settles(dom', node) = Settles(dom, node)
            /\ Settles(dom', node)[node] = processVisibleElement(dom, node, CachedRules)[node]
            /\ (dom = Settles(dom, node) => dom' = dom)
            /\ darCache'[host] = darCache[host]
            /\ durable' = durable]_vars

C21_Witness ==
  \E node \in Elements :
    /\ events = <<Callback("processVisibleElement", node)>>
    /\ node \in ioObserved
    /\ \E e \in Elements : Below(dom, node, e) /\ dom[e].cls = <<>> /\ TemplateClass[e] # <<>>
    /\ dom[node].cls = <<>> /\ TemplateClass[node] # <<>>
    /\ Len(CachedRules) = 2


\* ------------------------------------------------- classes the page puts back

\* A page script puts a stripped class back on an element of the document
\* (element.classList.add).  The MutationObserver is registered with
\* {childList: true, subtree: true} and no attributes option, so the change
\* yields no mutation record: nothing is queued for the callback.
PageSetsClass(e) ==
  /\ page = "live"
  /\ InDoc(dom, e)
  /\ TemplateClass[e] # <<>>
  /\ dom[e].cls = <<>>
  /\ dom' = [dom EXCEPT ![e].cls = TemplateClass[e]]
  /\ events' = <<>>
  /\ UNCHANGED <<host, page, durable, writes, esPhase, esCache, hiddenElements, darPhase,
                 darCache, observing, ioObserved, mutations, restoreList, restoreIdx, now, ops>>
  /\ UNCHANGED <<cssVars, pickVars>>

ReaddNext ==
  \/ Next
  \/ \E e \in Elements : PageSetsClass(e)

ReaddSpec == Init /\ [][ReaddNext]_vars

ReaddFairSpec == ReaddSpec /\ Scheduled

\* Element e was stripped of class c and marked processed, and carries the
\* class again while the rule is persisted and the observers are connected.
Readded(e, c) ==
  /\ page = "live" /\ observing /\ darPhase = "ready"
  /\ ClassRulePersisted(c)
  /\ InDoc(dom, e) /\ dom[e].proc /\ HasClass(e, c)

\* C22: while a class-type removal rule '.c' is persisted and the observers
\* are connected, a class c that the page puts back on an element already
\* stripped and marked processed is eventually stripped again (or the element,
\* the rule or the page goes away): the change re-triggers the applier.
C22_ReaddedClassStrippedAgain ==
  \A e \in Elements : \A c \in ClassNames : Readded(e, c) ~> ~Readded(e, c)


\* ----------------------------------------------------- removal by id or query

\* The elements of document d that selector sel matches.
MatchSet(d, sel) == {e \in Elements : InDoc(d, e) /\ Matches(d, e, sel)}

\* C23: when removeElements has swept the document for an id-type or complex
\* selector, no element of the document matches the selector any more (every
\* match was deleted, elements sharing one id included) and the count it
\* reports is the number of matching elements it deleted.
C23_RemoveDeletesEveryMatch ==
  [][\A sel \in TypedSelectors :
       (/\ RemovalType(sel) \in {"id", "complex"}
        /\ RemoveCommand(sel)
        /\ writes' # writes)
         => /\ MatchSet(dom', sel) = {}
            /\ writes'[Len(writes')].count = Cardinality(MatchSet(dom, sel))]_vars


\* ------------------------------------------------------------------ teardown

\* cleanup(): an observer that exists is disconnected and its field set to
\* null; the value is whether the observers are connected afterwards.
\* A teardown that leaves the observers connected.
cleanupKeepsObserving(connected) == connected

cleanup(connected) == FALSE

\* A call of DomAttrsRemover.cleanup() on the page's instance.  disconnect()
\* drops the IntersectionObserver's targets; nothing else is touched.
Cleanup ==
  /\ NoBatchQueued
  /\ page = "live"
  /\ observing' = cleanup(observing)
  /\ ioObserved' = IF observing' THEN ioObserved ELSE {}
  /\ events' = <<Completed("dar", "cleanup")>>
  /\ UNCHANGED <<host, page, dom, durable, writes, esPhase, esCache, hiddenElements, darPhase,
                 darCache, mutations, restoreList, restoreIdx, now, ops>>
  /\ UNCHANGED <<cssVars, pickVars>>

TeardownNext ==
  \/ Next
  \/ Cleanup

TeardownSpec == Init /\ [][TeardownNext]_vars

\* cleanup() has run on this document after its observers were connected.
TornDown == page = "live" /\ darPhase # "loading" /\ ~observing

\* C24: cleanup() disconnects both observers and changes nothing else (the
\* persisted rule collections, the caches and the document stay as they are),
\* and from then on, for as long as the document lives, the observers stay
\* disconnected: a node the page adds is neither queued for handleNewNodes
\* nor watched by the IntersectionObserver, and short of a new command or a
\* replay still in flight nothing alters an element of the document.
C24_TeardownOnlyDisconnects ==
  /\ [][Happened(Completed("dar", "cleanup"))' =>
          /\ ~observing' /\ ioObserved' = {}
          /\ UNCHANGED <<host, page, dom, durable, writes, esPhase, esCache, hiddenElements,
                         darPhase, darCache, mutations, restoreList, restoreIdx, now, ops>>]_vars
  /\ [][(TornDown /\ page' = "live" /\ ~FreshPage) =>
          /\ TornDown'
          /\ mutations' = <<>> /\ ioObserved' = {}
          /\ ~Happened(Completed("dar", "handleNewNodes"))'
          /\ \A e \in Elements \ Static :
               (~InDoc(dom, e) /\ InDoc(dom', e)) => dom'[e].cls = TemplateClass[e]
          /\ (darPhase = "ready" /\ esPhase = "ready" /\ ops' = ops) =>
               \A e \in Elements : InDoc(dom, e) => dom'[e] = dom[e]]_vars

\* After the teardown the page has added a subtree whose elements keep the
\* class of a persisted class rule that was applied to the document before.
C24_Witness ==
  /\ TornDown
  /\ ClassRulePersisted("ad")
  /\ dom["e1"].proc /\ ~HasClass("e1", "ad")
  /\ \E e \in Elements \ Static :
       InDoc(dom, e) /\ HasClass(e, "ad") /\ ~dom[e].proc
  /\ mutations = <<>>


\* --------------------------------------------------- destructive and reversible

\* A step in which clearRemovedElements runs up to its storage write.
ClearRemovedCalled ==
  /\ writes' # <<>>
  /\ writes' = Append(writes, writes'[Len(writes')])
  /\ writes'[Len(writes')].cont = "clearReload"

\* A step in which clearRemovedElements' write completes and it asks for the
\* reload and returns.
ClearRemovedReturns == page = "live" /\ page' = "unloading"

\* A step in which clearAllHidden runs up to its storage write.
ClearAllCalled ==
  /\ writes' # <<>>
  /\ writes'[Len(writes')].cont = "clearAll"
  /\ Len(writes') > Len(writes)

\* Elements that leave hiddenElements in the step: showElement has run on them.
Shown == SeqToSet(hiddenElements) \ SeqToSet(hiddenElements')

\* C25: clearRemovedElements reports the number of removal rules the origin
\* had, and when it asks for the reload and returns, the origin's removal
\* rules in durable storage are empty; neither of its steps puts a deleted
\* element back into the document.  An element that showElement or
\* clearAllHidden takes out of hiddenElements is visible again at once, on the
\* same document, and when clearAllHidden is answered the origin's hidden
\* selectors in durable storage are empty and no reload was asked for.
C25_ClearRemovedThenReload ==
  /\ [][ClearRemovedCalled =>
          /\ writes'[Len(writes')].count = Len(darCache[host].removedElements)
          /\ writes'[Len(writes')].snap[host].removedElements = <<>>
          /\ dom' = dom /\ page' = "live"]_vars
  /\ [][ClearRemovedReturns =>
          /\ durable'[host].present /\ durable'[host].removedElements = <<>>
          /\ \E i \in 1..Len(events') :
               events'[i] = Response("clearRemovedElements", NoSel, WriteHead.count, TRUE)
          /\ dom' = dom]_vars
  /\ [][(page = "live" /\ ~FreshPage) =>
          \A e \in Shown :
            /\ InDoc(dom, e) => (dom'[e].style # "none" /\ ~dom'[e].hid)
            /\ page' = "live" /\ dom'[e].att = dom[e].att]_vars
  /\ [][Happened(Response("clearAll", NoSel, 0, TRUE))' =>
          durable'[host].hidden = <<>> /\ page' = page]_vars

\* clearRemovedElements has returned the count of the one stored rule, storage
\* holds no removal rule for the origin, the element the rule had deleted is
\* still out of the document and the reload has been asked for.
C25_Witness ==
  /\ page = "unloading"
  /\ Happened(Response("clearRemovedElements", NoSel, 1, TRUE))
  /\ durable[host].removedElements = <<>>
  /\ \E e \in Elements : dom[e].att = "out"


\* ------------------------------------------------------- the selector of a rule

MaxClasses == 2

\* What className.split(' ') can give for an element of the page: up to
\* MaxClasses pieces, a page class, a class with the extension's prefix, or the
\* empty piece that two consecutive spaces leave.
ClassPieces == {"ad", "x", "hidethis-selected", ""}

ClassLists == UNION {[1..n -> ClassPieces] : n \in 0..MaxClasses}

\* The template's document, fully attached, in which one element has any
\* class attribute.
NamedDocuments ==
  {[e \in Elements |->
      IF e = f THEN [FreshElement(e) EXCEPT !.att = "in", !.cls = cls]
      ELSE [FreshElement(e) EXCEPT !.att = "in"]] : f \in Elements, cls \in ClassLists}

NamingInit ==
  /\ host = "a.com"
  /\ page = "live"
  /\ dom \in NamedDocuments
  /\ durable = EmptyStore
  /\ writes = <<>>
  /\ esPhase = "ready"
  /\ esCache = getDomainDataSync(EmptyStore, "a.com")
  /\ hiddenElements = <<>>
  /\ darPhase = "ready"
  /\ darCache = getDomainDataSync(EmptyStore, "a.com")
  /\ observing = FALSE
  /\ ioObserved = {}
  /\ mutations = <<>>
  /\ restoreList = <<>>
  /\ restoreIdx = 0
  /\ now = 0
  /\ ops = 0
  /\ events = <<>>
  /\ invalidatedSelectors = <<>>
  /\ styleElement = "null"
  /\ headStyles = <<>>
  /\ invalidatedCSS = <<>>
  /\ lineage = <<>>
  /\ pendingSelection = {}
  /\ selectedElement = 0
  /\ isActive = FALSE
  /\ boundHandlers = FALSE
  /\ forwarded = 0

\* The user hides selections; the writes that addHiddenElement starts complete.
NamingNext ==
  \/ \E order \in Orders : ExecuteHideAction(order)
  \/ WriteDone

NamingSpec == NamingInit /\ [][NamingNext]_vars

\* The elements hideElement has run on in the step.
NewlyHidden == SeqToSet(hiddenElements') \ SeqToSet(hiddenElements)

LowerCaseTags == {"div", "span"}

HasOwnClass(e) == \E i \in 1..Len(dom[e].cls) :
                    dom[e].cls[i] # "" /\ dom[e].cls[i] \notin ExtensionClasses

\* The selector hideElement hands to addHiddenElement for e in the step.
RuleSelectors(e) ==
  {events'[i].sel : i \in {j \in 1..Len(events') :
       /\ events'[j].kind = "notify" /\ events'[j].name = "elementHidden"
       /\ events'[j].count = IndexOf(hiddenElements', e)}}

\* C26: the selector of the rule made for an element is '#id' whenever the
\* element has an id, whatever its classes; otherwise its classes without
\* those of the extension's prefix, in order, joined by dots; and the bare
\* lower-case tag name only when it has neither.  One selector is made for
\* the element, and it is the one that is stored for the origin.
C26_SelectorPriority ==
  [][\A e \in NewlyHidden :
       /\ Cardinality(RuleSelectors(e)) = 1
       /\ \A sel \in RuleSelectors(e) :
            /\ Includes(esCache'[host].hidden, sel)
            /\ ElId[e] # "" => sel = Sel("#", <<ElId[e]>>)
            /\ (ElId[e] = "" /\ HasOwnClass(e)) =>
                 /\ sel.lead = "."
                 /\ sel.names = SelectSeq(dom[e].cls,
                                          LAMBDA c : c \in ClassPieces \ ({""} \cup ExtensionClasses))
            /\ (ElId[e] = "" /\ ~HasOwnClass(e)) =>
                 /\ sel.lead = ""
                 /\ sel.names = <<Tag[e]>> /\ Tag[e] \in LowerCaseTags]_vars


\* An element with an id and a class is stored as '#m', and an element whose
\* only class carries the extension's prefix is stored under its tag name.
C26_Witness ==
  /\ IsHidden("e3") /\ HasOwnClass("e3")
  /\ \E f \in Elements :
       /\ IsHidden(f) /\ ElId[f] = ""
       /\ Includes(dom[f].cls, "hidethis-selected") /\ ~HasOwnClass(f)
       /\ durable[host].hidden = <<SelM, Sel("", <<Tag[f]>>)>>


\* The attribute selector [attr="value"].
AttributeSelector(attr, value) == Sel("[", <<attr, value>>)

\* generateCSSSelectorsForElement: '#id' and one '.class' per class of the
\* page, and only when there is neither, the attribute selectors of the
\* allow-listed attributes the element has.  It feeds the element info panel
\* and the CSS invalidation, not the rule that hideElement stores.
generateCSSSelectorsForElement(d, e) ==
  LET named == (IF ElId[e] # "" THEN <<Sel("#", <<ElId[e]>>)>> ELSE <<>>)
                 \o [i \in 1..Len(OwnClasses(d[e].cls)) |-> Sel(".", <<OwnClasses(d[e].cls)[i]>>)]
  IN IF named # <<>> THEN named
     ELSE IF DataTestId[e] # "" THEN <<AttributeSelector("data-testid", DataTestId[e])>>
     ELSE <<>>

\* C27: the rule stored for an element that has neither an id nor a class of
\* the page but has an allow-listed attribute (here data-testid) carries the
\* attribute selector [data-testid="value"], not the bare tag name.
C27_AttributeFormPersisted ==
  [][\A e \in NewlyHidden :
       (ElId[e] = "" /\ ~HasOwnClass(e) /\ DataTestId[e] # "") =>
          \A sel \in RuleSelectors(e) :
            /\ sel = AttributeSelector("data-testid", DataTestId[e])
            /\ <<sel>> = generateCSSSelectorsForElement(dom, e)
            /\ Includes(esCache'[host].hidden, sel)]_vars


\* ---------------------------------------------------- the interactive selector

MaxAncestors == 4

\* An element as the selector sees it: its tagName and its bounding box.
Box(tag, w, h) == [tag |-> tag, w |-> w, h |-> h]

\* The innermost element of a branch: an inline or a block tag, tiny, small
\* or of ordinary size.
Leaves == {Box(tag, b[1], b[2]) : tag \in {"SPAN", "DIV"}, b \in {<<8, 8>>, <<40, 30>>, <<60, 30>>}}

\* Its ancestors: a block that is not 1.5 times a 40x30 box, a larger block,
\* a major container and a larger element that is neither.
Containers == {Box("DIV", 60, 30), Box("DIV", 100, 50), Box("NAV", 100, 50), Box("TABLE", 100, 50)}

Lineages ==
  UNION {{<<leaf>> \o up : leaf \in Leaves, up \in [1..n -> Containers]} : n \in 0..MaxAncestors}

InlineTags == {"SPAN", "A", "STRONG", "EM", "B", "I", "CODE"}
MajorContainers == {"BODY", "HTML", "MAIN", "HEADER", "FOOTER", "NAV"}
BlockTags == {"DIV", "SECTION", "ARTICLE", "ASIDE", "P", "LI", "UL", "OL"}

\* parentElement of position i of a branch; the last position's parent is
\* document.body, position 0 here.
ParentOf(line, i) == IF i < Len(line) THEN i + 1 ELSE 0

\* parentRect.width > rect.width * 1.5 || parentRect.height > rect.height * 1.5
SignificantlyLarger(outer, inner) == 2 * outer.w > 3 * inner.w \/ 2 * outer.h > 3 * inner.h

\* The while loop of findBestElementToSelect from ancestor parent on.
RECURSIVE BetterParent(_, _, _, _)
\* A walk that skips a major container instead of stopping at it.
BetterParentSkipsMajor(line, element, parent, depth) ==
  IF parent = 0 \/ depth >= 3 THEN element
  ELSE IF line[parent].tag \notin MajorContainers
          /\ SignificantlyLarger(line[parent], line[element])
          /\ line[parent].tag \in BlockTags
  THEN parent
  ELSE BetterParent(line, element, ParentOf(line, parent), depth + 1)

BetterParent(line, element, parent, depth) ==
  IF parent = 0 \/ depth >= 3 THEN element
  ELSE IF line[parent].tag \in MajorContainers THEN element
  ELSE IF SignificantlyLarger(line[parent], line[element]) /\ line[parent].tag \in BlockTags
  THEN parent
  ELSE BetterParent(line, element, ParentOf(line, parent), depth + 1)

findBestElementToSelect(line, element) ==
  LET isSmallElement == line[element].w < 50 \/ line[element].h < 20
      isInlineElement == line[element].tag \in InlineTags
  IN IF isSmallElement \/ isInlineElement
     THEN BetterParent(line, element, ParentOf(line, element), 0)
     ELSE element

\* toggleElementSelection
toggleElementSelection(pending, element) ==
  IF element \in pending THEN pending \ {element} ELSE pending \cup {element}

Ui(name, target) == Ev("ui", name, "es", NoSel, target, TRUE)

PickInit ==
  /\ host = "a.com"
  /\ page = "live"
  /\ dom = FreshDocument
  /\ durable = EmptyStore
  /\ writes = <<>>
  /\ esPhase = "ready"
  /\ esCache = getDomainDataSync(EmptyStore, "a.com")
  /\ hiddenElements = <<>>
  /\ darPhase = "ready"
  /\ darCache = getDomainDataSync(EmptyStore, "a.com")
  /\ observing = TRUE
  /\ ioObserved = {}
  /\ mutations = <<>>
  /\ restoreList = <<>>
  /\ restoreIdx = 0
  /\ now = 0
  /\ ops = 0
  /\ events = <<>>
  /\ invalidatedSelectors = <<>>
  /\ styleElement = "null"
  /\ headStyles = <<>>
  /\ invalidatedCSS = <<>>
  /\ lineage \in Lineages
  /\ pendingSelection = {}
  /\ selectedElement = 0
  /\ isActive = TRUE
  /\ boundHandlers = TRUE
  /\ forwarded = 0

pickRest == <<host, page, dom, durable, writes, esPhase, esCache, hiddenElements, darPhase,
              darCache, observing, ioObserved, mutations, restoreList, restoreIdx, now,
              forwarded>>

\* handleMouseOver: the pointer enters the element at position target.
HandleMouseOver(target) ==
  /\ target \in 1..Len(lineage)
  /\ boundHandlers /\ isActive
  /\ selectedElement' = findBestElementToSelect(lineage, target)
  /\ events' = <<Ui("handleMouseOver", target)>>
  /\ UNCHANGED <<pickRest, ops, lineage, pendingSelection, isActive, boundHandlers>>
  /\ UNCHANGED cssVars

\* handleMouseOut
HandleMouseOut ==
  /\ boundHandlers /\ isActive
  /\ selectedElement' = 0
  /\ events' = <<Ui("handleMouseOut", 0)>>
  /\ UNCHANGED <<pickRest, ops, lineage, pendingSelection, isActive, boundHandlers>>
  /\ UNCHANGED cssVars

\* handleSelectionClick: a click on the element at position target.
HandleSelectionClick(target) ==
  /\ target \in 1..Len(lineage)
  /\ boundHandlers /\ isActive
  /\ ops < MaxOps
  /\ ops' = ops + 1
  /\ LET clickedOnSelected == selectedElement # 0 /\ selectedElement >= target
         targetElement == IF clickedOnSelected THEN selectedElement
                          ELSE findBestElementToSelect(lineage, target)
     IN /\ pendingSelection' = toggleElementSelection(pendingSelection, targetElement)
        /\ selectedElement' = targetElement
  /\ events' = <<Ui("handleSelectionClick", 0)>>
  /\ UNCHANGED <<pickRest, lineage, isActive, boundHandlers>>
  /\ UNCHANGED cssVars

\* ArrowUp: selectParentElement
SelectParentElement ==
  /\ boundHandlers /\ isActive
  /\ selectedElement # 0
  /\ selectedElement' = IF ParentOf(lineage, selectedElement) # 0
                        THEN ParentOf(lineage, selectedElement) ELSE selectedElement
  /\ events' = <<Ui("selectParentElement", 0)>>
  /\ UNCHANGED <<pickRest, ops, lineage, pendingSelection, isActive, boundHandlers>>
  /\ UNCHANGED cssVars

\* ArrowDown: selectChildElement; on a branch the only child is the position
\* below.
SelectChildElement ==
  /\ boundHandlers /\ isActive
  /\ selectedElement # 0
  /\ selectedElement' = IF /\ selectedElement > 1
                           /\ lineage[selectedElement - 1].w > 20
                           /\ lineage[selectedElement - 1].h > 20
                        THEN selectedElement - 1 ELSE selectedElement
  /\ events' = <<Ui("selectChildElement", 0)>>
  /\ UNCHANGED <<pickRest, ops, lineage, pendingSelection, isActive, boundHandlers>>
  /\ UNCHANGED cssVars

PickNext ==
  \/ \E target \in 1..(MaxAncestors + 1) : HandleMouseOver(target)
  \/ HandleMouseOut
  \/ \E target \in 1..(MaxAncestors + 1) : HandleSelectionClick(target)
  \/ SelectParentElement
  \/ SelectChildElement

PickSpec == PickInit /\ [][PickNext]_vars

\* The pointer moving over the branch, without clicks or keys.
HoverNext ==
  \/ \E target \in 1..(MaxAncestors + 1) : HandleMouseOver(target)
  \/ HandleMouseOut

HoverSpec == PickInit /\ [][HoverNext]_vars


\* The element is small or of an inline tag.
NeedsContainer(line, element) ==
  line[element].w < 50 \/ line[element].h < 20 \/ line[element].tag \in InlineTags

\* Ancestor k levels up is not a major container, is larger than 1.5 times
\* the element in width or height, and is of a block-level tag.
Fits(line, element, k) ==
  /\ element + k <= Len(line)
  /\ line[element + k].tag \notin MajorContainers
  /\ SignificantlyLarger(line[element + k], line[element])
  /\ line[element + k].tag \in BlockTags

\* No major container among the first k ancestors.
Unbarred(line, element, k) ==
  \A j \in 1..k : element + j <= Len(line) => line[element + j].tag \notin MajorContainers

Hovered(target) == events = <<Ui("handleMouseOver", target)>>

\* The original reading of C28: for a small or inline element the nearest of
\* its first three ancestors that is no major container, is larger than 1.5
\* times the element and is block-level; the element itself if there is none
\* or if it is neither small nor inline.
C28_NearestFittingAncestor ==
  \A target \in 1..(MaxAncestors + 1) :
    Hovered(target) =>
      LET ks == {k \in 1..3 : Fits(lineage, target, k)} IN
      IF NeedsContainer(lineage, target) /\ ks # {}
      THEN selectedElement = target + CHOOSE k \in ks : \A j \in ks : k <= j
      ELSE selectedElement = target

\* C28: as above, but the walk ends at the first ancestor that is a major
\* container (BODY, HTML, MAIN, HEADER, FOOTER, NAV): only ancestors below it,
\* among the first three, are candidates.
C28_NearestFittingAncestorBelowMajor ==
  \A target \in 1..(MaxAncestors + 1) :
    Hovered(target) =>
      LET ks == {k \in 1..3 : Fits(lineage, target, k) /\ Unbarred(lineage, target, k)} IN
      IF NeedsContainer(lineage, target) /\ ks # {}
      THEN selectedElement = target + CHOOSE k \in ks : \A j \in ks : k <= j
      ELSE selectedElement = target

\* The pointer is over a small element inside a NAV inside a larger DIV: the
\* element itself is chosen.
C28_Witness ==
  /\ Hovered(1)
  /\ Len(lineage) >= 3
  /\ lineage[1].w < 50 /\ lineage[2].tag = "NAV" /\ lineage[3] = Box("DIV", 100, 50)
  /\ selectedElement = 1


\* The tag names among the validator's excludedSelectors.
ExcludedTags == {"html", "body", "head", "script", "style", "meta", "link", "title"}

\* isValidElement of the element-selection component, for an element of the
\* page that is rendered and is not part of the extension's own UI.
isValidElement(element) ==
  /\ toLowerCase(element.tag) \notin ExcludedTags
  /\ ~(element.w < 10 \/ element.h < 10)

\* C29: every element in the pending selection passed the isValidElement
\* gate: it is no excluded tag and measures at least 10 by 10 px.
C29_PendingPassedGate ==
  \A i \in pendingSelection : isValidElement(lineage[i])


\* ------------------------------------------------- callbacks only read the rules

\* C30: a run of handleNewNodes or processVisibleElement leaves every
\* persisted rule as it is: the DomAttrsRemover's cache, the ElementSelector's
\* cache and durable storage are unchanged and no storage write is started.
C30_CallbacksOnlyRead ==
  [][(\E node \in Elements : CallbackFor(node)) =>
       /\ darCache' = darCache
       /\ esCache' = esCache
       /\ durable' = durable
       /\ writes' = writes]_vars

\* handleNewNodes has stripped the classes of an added subtree and both stored
\* rules are in the cache and in storage as before, with nothing in flight.
C30_Witness ==
  /\ \E node \in Elements : events = <<Callback("handleNewNodes", node)>>
  /\ \E e \in Elements : TemplateClass[e] # <<>> /\ dom[e].cls = <<>>
  /\ Len(CachedRules) = 2
  /\ durable[host].removedElements = CachedRules
  /\ writes = <<>>


\* ------------------------------------------------------ hide, show and clear

\* A tab in which the user only hides, shows and clears hidden elements while
\* the page adds its lazy subtree: no removal command and no navigation.
HideNext ==
  \/ \E root \in Elements : PageAddNode(root)
  \/ DarLoaded
  \/ DeliverMutations
  \/ EsLoaded
  \/ \E order \in Orders : ExecuteHideAction(order)
  \/ \E index \in 0..Cardinality(Elements) : HandleRemoveHiddenElement(index)
  \/ ClearAllHidden
  \/ WriteDone
  \/ WriteDoneClearAll

HideSpec == Init /\ [][HideNext]_vars

\* No storage write is in flight and the bootstrap is over.
Quiet == page = "live" /\ esPhase = "ready" /\ darPhase = "ready" /\ writes = <<>>

\* C31: once the pending writes have completed, every element the engine
\* still hides has its generated selector in the origin's persisted hidden
\* list, also when several hidden elements share a selector and one is shown.
C31_HiddenHasPersistedSelector ==
  Quiet =>
    \A e \in SeqToSet(hiddenElements) :
      IsHidden(e) => Includes(durable[host].hidden, generateElementSelector(dom, e))


\* --------------------------------------------------- removing a selection

\* What executeRemoveAction has generated for one selected element.
Generated(e, sel) == Ev("generated", "executeRemoveAction", e, sel, 0, TRUE)

\* The loop of executeRemoveAction from the selection's remaining elements
\* on, up to the storage write that the next removeElements awaits: a
\* removeElements that throws is caught and the loop goes on.
RECURSIVE RemoveSelected(_, _, _, _, _, _)
RemoveSelected(rest, done, d, cache, domain, t) ==
  IF rest = <<>> THEN [dom |-> d, cache |-> cache, done |-> done, wrote |-> FALSE]
  ELSE LET sel == generateElementSelector(d, Head(rest))
           r == removeElementsDom(d, sel)
       IN IF r.ok
          THEN [dom |-> r.dom,
                cache |-> storeRemovedElement(cache, domain, sel, r.type, r.count, t),
                done |-> Append(done, Generated(Head(rest), sel)),
                rest |-> Tail(rest), sel |-> sel, count |-> r.count, wrote |-> TRUE]
          ELSE RemoveSelected(Tail(rest), Append(done, Generated(Head(rest), sel)),
                              d, cache, domain, t)

\* The chrome.storage.local.set that executeRemoveAction is waiting for, with
\* the rest of its loop.
SelectionWrite(r) ==
  [inst |-> "dar", op |-> "save", sel |-> r.sel, snap |-> saveToStorage(r.cache),
   cont |-> "selection", count |-> r.count, live |-> TRUE, rest |-> r.rest, done |-> r.done]

\* The user confirms Remove on the pending selection.
ExecuteRemoveAction(order) ==
  /\ NoBatchQueued
  /\ page = "live"
  /\ esPhase = "ready" /\ darPhase = "ready"
  /\ ops < MaxOps
  /\ ops' = ops + 1
  /\ \A i \in 1..Len(order) : Rendered(dom, order[i])
  /\ \E t \in Times(now) :
       LET r == RemoveSelected(order, <<>>, dom, darCache, host, t)
       IN /\ dom' = r.dom
          /\ darCache' = r.cache
          /\ writes' = IF r.wrote THEN Append(writes, SelectionWrite(r)) ELSE writes
          /\ now' = IF r.wrote THEN t ELSE now
          /\ IF r.wrote THEN UNCHANGED pickVars ELSE ClearAndDeactivate
          /\ events' = IF r.wrote THEN <<>>
                       ELSE r.done \o <<Completed("es", "executeRemoveAction")>>
  /\ UNCHANGED <<host, page, durable, esPhase, esCache, hiddenElements, darPhase, observing,
                 ioObserved, mutations, restoreList, restoreIdx>>
  /\ UNCHANGED cssVars

\* One removeElements of the loop has returned: the loop goes on, or ends.
WriteDoneSelection ==
  /\ NoBatchQueued
  /\ writes # <<>>
  /\ WriteHead.live /\ WriteHead.cont = "selection"
  /\ page = "live"
  /\ durable' = WriteHead.snap
  /\ \E t \in Times(now) :
       LET r == RemoveSelected(WriteHead.rest, WriteHead.done, dom, darCache, host, t)
       IN /\ dom' = r.dom
          /\ darCache' = r.cache
          /\ writes' = IF r.wrote THEN Append(Tail(writes), SelectionWrite(r)) ELSE Tail(writes)
          /\ now' = IF r.wrote THEN t ELSE now
          /\ IF r.wrote THEN UNCHANGED pickVars ELSE ClearAndDeactivate
          /\ events' = IF r.wrote THEN <<Resolved("dar", "save", WriteHead.sel, TRUE)>>
                       ELSE <<Resolved("dar", "save", WriteHead.sel, TRUE)>> \o r.done
                              \o <<Completed("es", "executeRemoveAction")>>
  /\ UNCHANGED <<host, page, esPhase, esCache, hiddenElements, darPhase, observing,
                 ioObserved, mutations, restoreList, restoreIdx, ops>>
  /\ UNCHANGED cssVars

\* Documents with any class attribute on one element, on which the user
\* confirms Remove on selections.
RemoveSelectionNext ==
  \/ \E order \in Orders : ExecuteRemoveAction(order)
  \/ WriteDoneSelection

RemoveSelectionSpec == NamingInit /\ [][RemoveSelectionNext]_vars

\* The element's id, if it has one, is that of no other element.
IdUnique(e) == \A f \in Elements \ {e} : ElId[e] = "" \/ ElId[f] # ElId[e]

\* C32: when executeRemoveAction has gone through the selection, every
\* selected element (whose id, if any, is unique in the document) is out of
\* the document or no longer matches the selector that was generated for it,
\* whether that is an id, one class, several classes or a tag name.
C32_SelectedElementsAffected ==
  Happened(Completed("es", "executeRemoveAction")) =>
    \A i \in 1..Len(events) :
      (events[i].kind = "generated" /\ IdUnique(events[i].inst)) =>
        ~InDoc(dom, events[i].inst) \/ ~Matches(dom, events[i].inst, events[i].sel)

\* ------------------------------------------------- the counts the popup sees

\* StorageManager.getHiddenCount: the number of selectors in the origin's
\* hidden list of the cache.
getHiddenCount(cache, domain) == Len(getDomainDataSync(cache, domain)[domain].hidden)

\* The notifications that carry the number of hidden elements.
CountNotification(ev) ==
  ev.kind = "notify" /\ ev.name \in {"elementHidden", "elementsCleared"}

\* The last count notification among the events of a step, 0 if there is none.
LastCount(evs) ==
  LET is == {i \in 1..Len(evs) : CountNotification(evs[i])}
  IN IF is = {} THEN 0 ELSE CHOOSE i \in is : \A j \in is : j <= i

\* C33: the count carried by the last 'elementHidden' or 'elementsCleared'
\* notification of a step is the count that getHiddenCount reports when it is
\* answered after that step, and the completion of the pending writes does
\* not change what getHiddenCount reports.
C33_NotifiedCountIsReportedCount ==
  /\ [][(esPhase = "ready" /\ LastCount(events') # 0 /\ events' # events)
          => events'[LastCount(events')].count = getHiddenCount(esCache', host)]_vars
  /\ [][(esPhase = "ready" /\ Len(writes') < Len(writes))
          => getHiddenCount(esCache', host) = getHiddenCount(esCache, host)]_vars

\* ----------------------------------------------------------- selection mode

MaxForwarded == 2

\* The branch the pointer moves over in selection mode: e4 inside e3.
ElementAt(i) == IF i = 1 THEN "e4" ELSE "e3"

ModeLineages ==
  {line \in Lineages :
     Len(line) = 2 /\ \A i \in 1..2 : line[i].tag = TagName[ElementAt(i)]}

\* The chrome.runtime.onMessage listeners that background.js registers in the
\* service worker: the BackgroundMessageController's and the one at the end
\* of the file.
Listeners == {"controller", "legacy"}

\* The listener sends the action on to the active tab with
\* chrome.tabs.sendMessage.
Forwards(listener, action) ==
  IF listener = "controller"
  THEN action \in {"ping", "test", "toggleSelector", "getSelectorState", "toggleVisibility",
                   "clearAll", "getHiddenCount"}
  ELSE action \in {"ping", "test", "toggleSelector", "toggleVisibility"}

pageVars == <<host, page, dom, durable, writes, esPhase, esCache, hiddenElements, darPhase,
              darCache, observing, ioObserved, mutations, restoreList, restoreIdx, now>>

ModeInit ==
  /\ host = "a.com"
  /\ page = "live"
  /\ dom = [e \in Elements |-> [FreshElement(e) EXCEPT !.att = "in"]]
  /\ durable = EmptyStore
  /\ writes = <<>>
  /\ esPhase = "ready"
  /\ esCache = getDomainDataSync(EmptyStore, "a.com")
  /\ hiddenElements = <<>>
  /\ darPhase = "ready"
  /\ darCache = getDomainDataSync(EmptyStore, "a.com")
  /\ observing = FALSE
  /\ ioObserved = {}
  /\ mutations = <<>>
  /\ restoreList = <<>>
  /\ restoreIdx = 0
  /\ now = 0
  /\ ops = 0
  /\ events = <<>>
  /\ invalidatedSelectors = <<>>
  /\ styleElement = "null"
  /\ headStyles = <<>>
  /\ invalidatedCSS = <<>>
  /\ lineage \in ModeLineages
  /\ pendingSelection = {}
  /\ selectedElement = 0
  /\ isActive = FALSE
  /\ boundHandlers = FALSE
  /\ forwarded = 0

\* The popup's handleToggleSelector sends {action: 'toggleSelector'} with
\* chrome.runtime.sendMessage; every listener of the service worker receives
\* it and those that forward it each send one message to the tab.
PopupToggleSelector ==
  /\ page = "live"
  /\ forwarded < MaxForwarded
  /\ forwarded' = forwarded + Cardinality({l \in Listeners : Forwards(l, "toggleSelector")})
  /\ events' = <<Ev("request", "toggleSelector", "popup", NoSel, 0, TRUE)>>
  /\ UNCHANGED <<pageVars, ops, lineage, pendingSelection, selectedElement, isActive,
                 boundHandlers>>
  /\ UNCHANGED cssVars

\* The content script receives one forwarded 'toggleSelector': toggleSelector()
\* flips isActive and activates or deactivates, then the state is answered.
\* deactivateSelector leaves pendingSelection as it is.
ToggleSelectorMessage ==
  /\ page = "live"
  /\ esPhase = "ready"
  /\ forwarded > 0
  /\ forwarded' = forwarded - 1
  /\ isActive' = ~isActive
  /\ boundHandlers' = isActive'
  /\ selectedElement' = IF isActive' THEN selectedElement ELSE 0
  /\ events' = <<Response("toggleSelector", NoSel, 0, isActive')>>
  /\ UNCHANGED <<pageVars, ops, lineage, pendingSelection>>
  /\ UNCHANGED cssVars

\* Escape in selection mode (handleKeyDown), or the Cancel button:
\* cancelSelection.
CancelSelection ==
  /\ page = "live"
  /\ boundHandlers /\ isActive
  /\ pendingSelection' = {}
  /\ selectedElement' = 0
  /\ boundHandlers' = FALSE
  /\ isActive' = FALSE
  /\ events' = <<Ui("cancelSelection", 0)>>
  /\ UNCHANGED <<pageVars, ops, lineage, forwarded>>
  /\ UNCHANGED cssVars

\* The order is one in which the pending selection can have been picked.
IsPending(order) ==
  {order[i] : i \in 1..Len(order)} = {ElementAt(i) : i \in pendingSelection}

\* The Hide button of the selection controls.
ConfirmHide ==
  /\ boundHandlers
  /\ pendingSelection # {}
  /\ \E order \in Orders : IsPending(order) /\ ExecuteHideAction(order)

\* The Remove button of the selection controls.
ConfirmRemove ==
  /\ boundHandlers
  /\ pendingSelection # {}
  /\ \E order \in Orders : IsPending(order) /\ ExecuteRemoveAction(order)

ModeNext ==
  \/ PopupToggleSelector
  \/ ToggleSelectorMessage
  \/ \E target \in 1..2 : HandleMouseOver(target)
  \/ HandleMouseOut
  \/ \E target \in 1..2 : HandleSelectionClick(target)
  \/ CancelSelection
  \/ ConfirmHide
  \/ ConfirmRemove
  \/ WriteDone
  \/ WriteDoneSelection

ModeSpec == ModeInit /\ [][ModeNext]_vars

\* C34: one toggleSelector request of the popup is forwarded to the tab
\* exactly once, so that it toggles the selector once.
C34_ToggleForwardedOnce ==
  [][forwarded' > forwarded => forwarded' = forwarded + 1]_vars

\* C35: isActive is true exactly when selection mode is on, that is when the
\* overlay shows and the handlers are attached.
C35_IsActiveIsTheMode == isActive <=> boundHandlers

\* C36: whenever selection mode is off, the pending selection is empty.
C36_OffMeansNothingPending ==
  (~isActive /\ ~boundHandlers) => pendingSelection = {}

\* ------------------------------------- a StorageManager initialised late

\* The page after initializeStorageManager caught a failed storage get: the
\* ElementSelector runs with a StorageManager whose initialized is false and
\* whose cache is empty, and storage answers again.
RetryInit ==
  /\ host = "a.com"
  /\ page = "live"
  /\ dom \in NamedDocuments
  /\ durable = EmptyStore
  /\ writes = <<>>
  /\ esPhase = "failed"
  /\ esCache = EmptyStore
  /\ hiddenElements = <<>>
  /\ darPhase = "ready"
  /\ darCache = getDomainDataSync(EmptyStore, "a.com")
  /\ observing = FALSE
  /\ ioObserved = {}
  /\ mutations = <<>>
  /\ restoreList = <<>>
  /\ restoreIdx = 0
  /\ now = 0
  /\ ops = 0
  /\ events = <<>>
  /\ invalidatedSelectors = <<>>
  /\ styleElement = "null"
  /\ headStyles = <<>>
  /\ invalidatedCSS = <<>>
  /\ lineage = <<>>
  /\ pendingSelection = {}
  /\ selectedElement = 0
  /\ isActive = FALSE
  /\ boundHandlers = FALSE
  /\ forwarded = 0

\* The chrome.storage.local.get of a loadFromStorage that init() started for
\* addHiddenElement(sel)'s ensureInitialized.
Load(sel) ==
  [inst |-> "es", op |-> "load", sel |-> sel, snap |-> EmptyStore, cont |-> "init",
   count |-> 0, live |-> TRUE]

Loaded(sel) == Ev("loaded", "loadFromStorage", "es", sel, 0, TRUE)

\* hideElement while initialized is false: addHiddenElement awaits
\* ensureInitialized, which calls init(), which starts loadFromStorage.
hideElementUninitialized(st, e) ==
  LET d == hideElementDirectly(st.dom, e)
      he == SetAdd(st.hidden, e)
      sel == generateElementSelector(d, e)
  IN [st EXCEPT !.dom = d, !.hidden = he,
                !.writes = Append(st.writes, Load(sel)),
                !.events = st.events \o <<Notify("elementHidden", sel, Len(he))>>]

RECURSIVE HideLoopUninitialized(_, _)
HideLoopUninitialized(st, order) ==
  IF order = <<>> THEN st
  ELSE HideLoopUninitialized(hideElementUninitialized(st, Head(order)), Tail(order))

\* executeHideAction on a StorageManager that is not initialised.
ExecuteHideActionUninitialized(order) ==
  /\ page = "live"
  /\ esPhase = "failed"
  /\ ops < MaxOps
  /\ \A i \in 1..Len(order) : Rendered(dom, order[i])
  /\ LET st == HideLoopUninitialized(EsState, order)
     IN /\ dom' = st.dom
        /\ hiddenElements' = st.hidden
        /\ writes' = st.writes
        /\ events' = st.events
  /\ ops' = ops + 1
  /\ UNCHANGED <<host, page, durable, esPhase, esCache, darPhase, darCache, observing,
                 ioObserved, mutations, restoreList, restoreIdx, now>>
  /\ UNCHANGED cssVars
  /\ ClearAndDeactivate

\* A get completes: loadFromStorage clears the cache and fills it from the
\* stored object, init() sets initialized, and addHiddenElement goes on.
LoadDone ==
  /\ page = "live"
  /\ writes # <<>>
  /\ WriteHead.live /\ WriteHead.cont = "init"
  /\ LET a == addHiddenElement(loadFromStorage(durable), host, WriteHead.sel)
     IN /\ esCache' = a.cache
        /\ writes' = IF a.wrote
                     THEN Append(Tail(writes), Write("es", "add", WriteHead.sel, a.cache, "none", 0))
                     ELSE Tail(writes)
        /\ events' = <<Loaded(WriteHead.sel)>>
                       \o (IF a.wrote THEN <<>> ELSE <<Resolved("es", "add", WriteHead.sel, FALSE)>>)
  /\ esPhase' = "ready"
  /\ UNCHANGED <<host, page, dom, durable, hiddenElements, darPhase, darCache, observing,
                 ioObserved, mutations, restoreList, restoreIdx, now, ops>>
  /\ UNCHANGED <<cssVars, pickVars>>

RetryNext ==
  \/ \E order \in Orders : ExecuteHideActionUninitialized(order)
  \/ \E order \in Orders : ExecuteHideAction(order)
  \/ LoadDone
  \/ WriteDone

RetrySpec == RetryInit /\ [][RetryNext]_vars

\* C37: a StorageManager loads its cache at most once: no loadFromStorage
\* completes on an instance that is initialised, and a load never takes a
\* selector out of the cache that was added before.
C37_CacheLoadedOnce ==
  [][(\E i \in 1..Len(events') : events'[i].kind = "loaded" /\ events' # events)
       => /\ esPhase # "ready"
          /\ \A j \in 1..Len(esCache[host].hidden) :
               Includes(esCache'[host].hidden, esCache[host].hidden[j])]_vars

\* ------------------------------------------------------ clearing every hide

\* A step in which the write of clearHiddenElements completes and
\* clearAllHidden resolves.
ClearAllResolves ==
  /\ writes # <<>>
  /\ WriteHead.live /\ WriteHead.cont = "clearAll"
  /\ writes' = Tail(writes)

ReplayClearNext ==
  \/ DarLoaded
  \/ WriteDoneRestore
  \/ EsLoaded
  \/ HandleClearRemovedElements
  \/ WriteDoneClearRemoved
  \/ PageReload
  \/ WriteDone

ReplayClearSpec == BootstrapInit /\ [][ReplayClearNext]_vars

\* C39: once clearRemovedElements has returned success the origin has no
\* removal rule in durable storage until the user creates one: while the
\* user creates none, the origin's stored rule list, once empty, stays empty,
\* also when the clear arrived during restoreRemovedElements.
C39_ClearedRulesStayCleared ==
  [][durable[host].removedElements = <<>> => durable'[host].removedElements = <<>>]_vars

\* ------------------------------------------------------ toggling visibility

\* toggleHiddenElements: the first member of hiddenElements decides the
\* direction for all of them.
toggleHiddenElements(d, hidden) ==
  LET isVisible == hidden # <<>> /\ d[hidden[1]].style # "none"
  IN [e \in Elements |->
        IF e \notin SeqToSet(hidden) THEN d[e]
        ELSE IF isVisible
        THEN [d[e] EXCEPT !.orig = IF d[e].orig # NoAttr THEN d[e].orig ELSE Computed(d, e),
                          !.style = "none"]
        ELSE [d[e] EXCEPT !.style = IF d[e].orig # NoAttr /\ d[e].orig # "none"
                                    THEN d[e].orig ELSE ""]]

\* The 'toggleVisibility' message.
ToggleVisibility ==
  /\ page = "live"
  /\ esPhase = "ready"
  /\ dom' = toggleHiddenElements(dom, hiddenElements)
  /\ events' = <<Response("toggleVisibility", NoSel, 0, TRUE)>>
  /\ UNCHANGED <<host, page, durable, writes, esPhase, esCache, hiddenElements, darPhase,
                 darCache, observing, ioObserved, mutations, restoreList, restoreIdx, now, ops>>
  /\ UNCHANGED <<cssVars, pickVars>>

\* Pages with any inline displays, on which elements are hidden and shown
\* and the popup toggles the visibility.
ToggleNext ==
  \/ \E e \in Elements : ApplyHide(e)
  \/ \E e \in Elements : ApplyShow(e)
  \/ ToggleVisibility

ToggleSpec == ApplierInit /\ [][ToggleNext]_vars

\* A step in which toggleVisibility is answered.
Toggled == \E i \in 1..Len(events') : events'[i] = Response("toggleVisibility", NoSel, 0, TRUE)

AllHidden ==
  hiddenElements # <<>> /\ \A e \in SeqToSet(hiddenElements) : dom[e].style = "none"

AllVisible ==
  hiddenElements # <<>> /\ \A e \in SeqToSet(hiddenElements) : dom[e].style # "none"

\* C40: toggleVisibility changes nothing but the display of the members of
\* the hidden set: the set, the cache, durable storage and the writes in
\* flight stay as they are; from the state in which every member is hidden
\* one toggle leaves every member visible with its recorded display, and a
\* toggle from there returns every member to display 'none'.
C40_ToggleOnlyFlipsDisplay ==
  [][Toggled =>
       /\ hiddenElements' = hiddenElements /\ esCache' = esCache
       /\ durable' = durable /\ writes' = writes
       /\ \A e \in Elements :
            [dom'[e] EXCEPT !.style = dom[e].style] = dom[e]
       /\ \A e \in Elements \ SeqToSet(hiddenElements) : dom'[e] = dom[e]
       /\ AllHidden => \A e \in SeqToSet(hiddenElements) :
                         dom'[e].style # "none" /\ dom'[e].style = dom[e].orig
       /\ AllVisible => \A e \in SeqToSet(hiddenElements) : dom'[e].style = "none"]_vars

============================================================================
